---- MODULE Spec2Model ----
(***************************************************************************)
(* Model of the package handlers of src/src/handlers/package_handler.js,   *)
(* run as concurrent async functions over the catalog the data module      *)
(* keeps: the listing handler GETPackages and the search handler           *)
(* GETPackagesSearch (Spec), the featured listing and the detail view      *)
(* (ViewSpec), the tarball download and the uninstall event (EventSpec),   *)
(* the star handlers (StarSpec), the deletion of a version (VersionSpec),  *)
(* publishing and deleting a package (PublishSpec), and all the handlers   *)
(* that require authorization together (AuthSpec).                         *)
(* Every action is one stretch of a handler between two awaits: the code   *)
(* from the resumption after one await up to and including the synchronous *)
(* call whose promise the next await waits for.  The pure functions of     *)
(* search.js and collection.js are also called directly (ScoreSpec,        *)
(* CollectionSpec).                                                        *)
(***************************************************************************)
EXTENDS Integers, Sequences, FiniteSets, TLC

\* ------------------------------------------------------------- bounds
MaxPkgs == 2
MaxDownloads == 1
MaxPaginate == 2
MaxPage == 4
MaxReqs == 2

\* Bound of the strings the similarity algorithms are called on directly.
MaxStrLen == 2

\* Scale that keeps every similarity score an integer (a score s is held as
\* ScoreScale * s; the denominators met are 1..6, and twice the product of
\* two token counts of 1..4 each).
ScoreScale == (3 * 4 * 5) * (2 * 9 * 16)

Reqs == 1..MaxReqs
Directions == {"asc", "desc"}
ListSorts == {"downloads", "stars"}
SearchSorts == {"relevance", "downloads"}
Queries == {<<>>, <<1>>}

VARIABLES
  stored,            \* the catalog as persisted on disk by the data module
  cached,            \* the array object data.js caches and hands out as .content
  paginated_amount,  \* config: PAGINATE, fixed for the process lifetime
  pc,                \* per request: the await the handler is suspended at
  handler,           \* per request: which handler serves it
  req,               \* per request: the query parameters of the HTTP request
  params,            \* per request: the handler's local `params`
  all_packages,      \* per request: the handler's local `all_packages` (.ok, .short)
  own,               \* per request: the array object private to the request
  packages,          \* per request: which array the local `packages` refers to
  total_pages,       \* per request: the handler's local `total_pages`
  sorted,            \* per request: the contents of `packages` when total_pages is computed
  res,               \* per request: the response (status, body, Link header)
  snapshot,          \* per request: what the data module held when the request retrieved it
  alone,             \* per request: no other request was in flight during its run
  local,             \* per request: the handler's other locals, by name (pack, write, ...)
  engine_filtered,   \* per request: collection.EngineFilter was invoked for it
  probe,             \* the last direct call of a pure function: its arguments and result
  user_stars,        \* the packages the user's profile lists as starred (users.js)
  responses          \* per request: how many times a response was sent on `res`

vars == <<stored, cached, paginated_amount, pc, handler, req, params,
          all_packages, own,
          packages, total_pages, sorted, res, snapshot, alone,
          local, engine_filtered, probe, user_stars, responses>>

\* What the listing and search handlers never touch.
sideVars == <<local, engine_filtered, probe>>

\* What only the listing and search handlers touch.
listVars == <<cached, paginated_amount, all_packages, own, packages,
              total_pages, sorted>>

\* ------------------------------------------------------------ helpers
Max(a, b) == IF a >= b THEN a ELSE b
Min(a, b) == IF a <= b THEN a ELSE b

RECURSIVE NameOf(_)
\* Distinct package names over the alphabet {1, 2}: <<1>>, <<2>>, <<1,1>>, ...
NameOf(i) ==
  IF i = 0 THEN <<>>
  ELSE NameOf((i - 1) \div 2) \o <<((i - 1) % 2) + 1>>

DescOf(i) == <<(i % 2) + 1>>

\* A semver string "x.y.z" is held as <<x, Dot, y, Dot, z>>; any other
\* character of a string is held as Letter.
Dot == 0 - 1
Letter == 0 - 2
SemverString(x, y, z) == <<x, Dot, y, Dot, z>>

\* A comparator of a declared compatibility range: an operator and a version.
Comparator(op, x, y, z) == [op |-> op, v |-> <<x, y, z>>]

\* The versions of package i: semver string -> VersionRecord.  A declared
\* range is the set of the comparators its || joins.
VersionRecord(i, ver, range) ==
  ver :> [engine |-> range, tarball_url |-> <<i, ver>>]

VersionsOf(i) ==
  IF i % 2 = 1
    THEN VersionRecord(i, SemverString(1, 0, 0), {Comparator("^", 1, 2, 0)})
      @@ VersionRecord(i, SemverString(2, 0, 0), {Comparator(">=", 2, 0, 0)})
    ELSE VersionRecord(i, SemverString(1, 1, 0),
                       {Comparator("~", 1, 2, 0), Comparator("=", 2, 0, 0)})

\* A PackageRecord as the data module stores it.
Package(i, d) ==
  [name |-> NameOf(i), description |-> DescOf(i), downloads |-> d,
   star_gazers |-> {}, versions |-> VersionsOf(i)]

Catalogs ==
  UNION { { [i \in 1..n |-> Package(i, d[i])] : d \in [1..n -> 0..MaxDownloads] }
          : n \in 0..MaxPkgs }

\* ---------------------------------------- search.js (SimilarityScorer)
Min3(a, b, c) == Min(a, Min(b, c))

RECURSIVE EditDistance(_, _, _, _)
\* Edit distance with insertion and deletion cost `indel`, substitution `sub`.
EditDistance(a, b, indel, sub) ==
  IF a = <<>> THEN indel * Len(b)
  ELSE IF b = <<>> THEN indel * Len(a)
  ELSE Min3(EditDistance(Tail(a), b, indel, sub) + indel,
            EditDistance(a, Tail(b), indel, sub) + indel,
            EditDistance(Tail(a), Tail(b), indel, sub)
              + (IF Head(a) = Head(b) THEN 0 ELSE sub))

\* Mutant of levenshtein: the normalised distance, not the similarity.
levenshteinDistance(a, b) ==
  IF Max(Len(a), Len(b)) = 0 THEN ScoreScale
  ELSE (EditDistance(a, b, 1, 1) * ScoreScale) \div Max(Len(a), Len(b))

\* Plain edit distance: 1 - distance / max(len a, len b), times ScoreScale.
levenshtein(a, b) ==
  IF Max(Len(a), Len(b)) = 0 THEN ScoreScale
  ELSE ScoreScale - (EditDistance(a, b, 1, 1) * ScoreScale) \div Max(Len(a), Len(b))

\* Weighted edit distance (insertion = deletion = 1, substitution = 2):
\* 1 - distance / (len a + len b), times ScoreScale.
vlEditDistance(a, b) ==
  IF Len(a) + Len(b) = 0 THEN ScoreScale
  ELSE ScoreScale - (EditDistance(a, b, 1, 2) * ScoreScale) \div (Len(a) + Len(b))

\* The character words are split on (whitespace, hyphen, underscore).
Hyphen == 0

RECURSIVE Split(_)
\* The tokens of a string: what lies between its separators.
Split(s) ==
  IF \A k \in 1..Len(s) : s[k] # Hyphen THEN <<s>>
  ELSE LET k == CHOOSE i \in 1..Len(s) :
                  s[i] = Hyphen /\ \A j \in 1..(i - 1) : s[j] # Hyphen
       IN <<SubSeq(s, 1, k - 1)>> \o Split(SubSeq(s, k + 1, Len(s)))

RECURSIVE SumOf(_)
SumOf(s) == IF s = <<>> THEN 0 ELSE Head(s) + SumOf(Tail(s))

\* The best similarity of token t against any token of ts.
BestMatch(t, ts) ==
  CHOOSE m \in { levenshtein(t, ts[k]) : k \in 1..Len(ts) } :
    \A k \in 1..Len(ts) : levenshtein(t, ts[k]) <= m

\* Word-split double mean: the mean of the means of the best matches of the
\* tokens of a against b and of b against a, times ScoreScale.
levenshteinWSDM(a, b) ==
  IF a = <<>> \/ b = <<>> THEN (IF a = b THEN ScoreScale ELSE 0)
  ELSE LET ta == Split(a)
           tb == Split(b)
           sumA == SumOf([k \in 1..Len(ta) |-> BestMatch(ta[k], tb)])
           sumB == SumOf([k \in 1..Len(tb) |-> BestMatch(tb[k], ta)])
       IN (sumA * Len(tb) + sumB * Len(ta)) \div (2 * Len(ta) * Len(tb))

RECURSIVE lcsOneSided(_, _)
\* Mutant of lcs: a mismatch only ever skips a character of a.
lcsOneSided(a, b) ==
  IF a = <<>> \/ b = <<>> THEN 0
  ELSE IF Head(a) = Head(b) THEN 1 + lcsOneSided(Tail(a), Tail(b))
  ELSE lcsOneSided(Tail(a), b)

RECURSIVE lcs(_, _)
\* Length of the longest common subsequence of two strings.
lcs(a, b) ==
  IF a = <<>> \/ b = <<>> THEN 0
  ELSE IF Head(a) = Head(b) THEN 1 + lcs(Tail(a), Tail(b))
  ELSE Max(lcs(Tail(a), b), lcs(a, Tail(b)))

\* LCS-overlap similarity 2*LCS/(len a + len b), held times ScoreScale.
Score(a, b) ==
  IF Len(a) + Len(b) = 0 THEN ScoreScale
  ELSE (2 * lcs(a, b) * ScoreScale) \div (Len(a) + Len(b))

\* The algorithms the configuration can select.
Algorithms == {"levenshtein_distance", "vl_edit_distance",
               "levenshtein_distance_wsdm", "lcs"}

\* The score of the algorithm selected.
Similarity(algorithm, a, b) ==
  CASE algorithm = "levenshtein_distance" -> levenshtein(a, b)
    [] algorithm = "vl_edit_distance" -> vlEditDistance(a, b)
    [] algorithm = "levenshtein_distance_wsdm" -> levenshteinWSDM(a, b)
    [] OTHER -> Score(a, b)

\* Ranker: finalScore = max(nameScore, 0.5 * descriptionScore).
Relevance(q, p) == Max(Score(q, p.name), Score(q, p.description) \div 2)

\* collection.SearchWithinPackages: scores every package, drops none.
SearchWithinPackages(q, arr) ==
  [i \in 1..Len(arr) |->
     [f \in DOMAIN arr[i] \cup {"relevance"} |->
        IF f = "relevance" THEN Relevance(q, arr[i]) ELSE arr[i][f]]]

RECURSIVE LexLess(_, _)
\* Name order: lexicographic, a proper prefix first.
LexLess(a, b) ==
  IF b = <<>> THEN FALSE
  ELSE IF a = <<>> THEN TRUE
  ELSE IF Head(a) # Head(b) THEN Head(a) < Head(b)
  ELSE LexLess(Tail(a), Tail(b))

\* Whether a is placed strictly before b under the sort key `method`
\* (descending; relevance ties are broken by name ascending).
Before(a, b, method) ==
  CASE method = "downloads" -> a.downloads > b.downloads
    [] method = "stars" ->
         Cardinality(a.star_gazers) > Cardinality(b.star_gazers)
    [] method = "relevance" ->
         \/ a.relevance > b.relevance
         \/ a.relevance = b.relevance /\ LexLess(a.name, b.name)
    [] OTHER -> FALSE

\* The number of items the sort places before item i: those that go strictly
\* before it, and those with an equal key that stood before it (stability).
Rank(arr, i, method) ==
  Cardinality({ j \in 1..Len(arr) :
                  \/ Before(arr[j], arr[i], method)
                  \/ ~Before(arr[i], arr[j], method) /\ j < i })

\* collection.Sort: the contents of the array after the stable sort, which
\* is done on the array handed in, and that array is what it returns.
Sort(arr, method) ==
  [k \in 1..Len(arr) |->
     arr[CHOOSE i \in 1..Len(arr) : Rank(arr, i, method) = k - 1]]

\* Mutant of Reverse: the index is one off, and the last item is lost.
ReverseShort(s) == [i \in 1..(Len(s) - 1) |-> s[Len(s) - i]]

Reverse(s) == [i \in 1..Len(s) |-> s[Len(s) + 1 - i]]

\* collection.Direction: the sorts produce descending order; "asc" reverses
\* the array handed in, in place.
Direction(arr, method) == IF method = "asc" THEN Reverse(arr) ELSE arr

\* collection.POSPrune: the Package Object Short of every package, a new array.
POSPrune(arr) ==
  [i \in 1..Len(arr) |->
     [name |-> arr[i].name, downloads |-> arr[i].downloads,
      stargazers_count |-> Cardinality(arr[i].star_gazers)]]

\* collection.POFPrune: the Package Object Full of one package, a new object.
POFPrune(p) ==
  [name |-> p.name, downloads |-> p.downloads,
   stargazers_count |-> Cardinality(p.star_gazers), versions |-> p.versions]

\* The version <<x, y, z>> a semver string names.
ParseSemver(s) == <<s[1], s[3], s[5]>>

\* Semver precedence: a >= b.
SemverGE(a, b) ==
  \/ a[1] > b[1]
  \/ a[1] = b[1] /\ a[2] > b[2]
  \/ a[1] = b[1] /\ a[2] = b[2] /\ a[3] >= b[3]

\* Whether version v matches one comparator of a range.
Matches(c, v) ==
  CASE c.op = "^" ->
         /\ SemverGE(v, c.v)
         /\ v[1] = c.v[1]
         /\ c.v[1] = 0 => v[2] = c.v[2]
    [] c.op = "~" -> SemverGE(v, c.v) /\ v[1] = c.v[1] /\ v[2] = c.v[2]
    [] c.op = ">=" -> SemverGE(v, c.v)
    [] c.op = "<=" -> SemverGE(c.v, v)
    [] OTHER -> v = c.v

\* Whether a declared range, the union of its comparators, contains v.
Satisfies(range, v) == \E c \in range : Matches(c, v)

\* collection.EngineFilter(pack, engine): the package with only the versions
\* whose declared range contains the engine version.
EngineFilter(pack, engine) ==
  [pack EXCEPT !.versions =
     [ver \in { k \in DOMAIN pack.versions :
                  Satisfies(pack.versions[k].engine, ParseSemver(engine)) }
        |-> pack.versions[ver]]]

\* ------------------------------------------------------------ query.js
\* The sort keys of the catalogs modelled here (they carry no timestamps).
ValidSorts == {"relevance", "downloads", "stars"}

\* Mutant of QuerySort: a key that is no sort key gives `def` as well.
QuerySortDefault(raw, def) ==
  IF raw \in ValidSorts THEN raw ELSE def

\* query.sort(req, def): the key the request names; `def` when it names
\* none; downloads when it names one that is no sort key.
QuerySort(raw, def) ==
  IF raw = "" THEN def
  ELSE IF raw \in ValidSorts THEN raw
  ELSE "downloads"

\* Whether a string reads as a semver "x.y.z" (single-digit fields).
IsSemver(s) ==
  /\ Len(s) = 5
  /\ s[2] = Dot /\ s[4] = Dot
  /\ \A k \in {1, 3, 5} : s[k] \in 0..9

\* query.engine(x): the string when it is a valid semver, else false (held
\* as the empty string, which is as falsy).
QueryEngine(raw) == IF IsSemver(raw) THEN raw ELSE <<>>

\* ----------------------------------------- package_handler.js, shared code
\* Array.prototype.splice(start, deleteCount): the array after the removal.
Splice(arr, start, deleteCount) ==
  LET s == Min(start, Len(arr))
      d == Min(Max(deleteCount, 0), Len(arr) - s)
  IN SubSeq(arr, 1, s) \o SubSeq(arr, s + d + 1, Len(arr))

\* Mutant of TotalPages: the division rounds down.
TotalPagesFloor(len, amount) == len \div amount

\* Math.ceil(packages.length / paginated_amount)
TotalPages(len, amount) == (len + amount - 1) \div amount

\* Mutant of SpliceStart: drops one page's worth whatever the page.
SpliceStartOnePage(arr, page, amount) ==
  IF page # 1 THEN Splice(arr, 0, amount) ELSE arr

\* The first splice: drop what earlier pages show, unless this is page 1.
SpliceStart(arr, page, amount) ==
  IF page # 1 THEN Splice(arr, 0, page * amount) ELSE arr

\* The second splice: drop what later pages show, unless this is the last page.
SpliceEnd(arr, page, total, amount) ==
  IF page # total THEN Splice(arr, page * amount + amount, Len(arr)) ELSE arr

\* Both splices, in the order of the code.
Paginate(arr, page, total, amount) ==
  SpliceEnd(SpliceStart(arr, page, amount), page, total, amount)

\* x++ : the value the expression has, and the value the variable has after.
PostIncrement(x) == [value |-> x, after |-> x + 1]

\* Mutant of PostDecrement: the variable keeps its value.
PostDecrementNone(x) == [value |-> x, after |-> x]

\* x-- : the value the expression has, and the value the variable has after.
PostDecrement(x) == [value |-> x, after |-> x - 1]

\* The three page numbers the Link header names, read left to right.
Link(page, total) ==
  [self |-> page, last |-> total, next |-> PostIncrement(page).value]

\* common.HandleError: an error response, never a 200.
ErrorStatus == 500

InFlight(r) == pc[r] \notin {"idle", "done"}

\* Requests are numbered in the order they arrive.
Arrives(r) == pc[r] = "idle" /\ \A o \in Reqs : o < r => pc[o] # "idle"

\* The pages a request may name: every page of the stored catalog and the
\* first page beyond the last, up to MaxPage.
Pages ==
  1..Min(MaxPage, Max(1, TotalPages(Len(stored), paginated_amount)) + 1)

\* The array the local `packages` of request r refers to.
Deref(r) == IF packages[r] = "cached" THEN cached ELSE own[r]

NoRes == [status |-> 0, body |-> <<>>, link |-> [self |-> 0, last |-> 0, next |-> 0]]
NoReq == [page |-> 0, sort |-> "", order |-> "", q |-> <<>>]
NoParams == [page |-> 0, sort |-> "", direction |-> ""]
NotYet == [ok |-> FALSE, short |-> "pending"]
Retrieved == [ok |-> TRUE, short |-> ""]
Failed == [ok |-> FALSE, short |-> "Server Error"]
NoLocals == [user |-> NotYet, pack |-> NotYet, write |-> NotYet, save |-> NotYet,
             col |-> NotYet, newCol |-> <<>>,
             gitowner |-> NotYet, exists |-> NotYet, create |-> NotYet,
             new_pack |-> NotYet, rm |-> NotYet, star |-> NotYet,
             unstar |-> NotYet, restar |-> NotYet]
NoProbe == [fn |-> "none"]

TypeOK ==
  /\ paginated_amount \in 1..(MaxPaginate + 1)
  /\ pc \in [Reqs -> {"idle", "get", "copy", "search", "sort", "direction",
                      "prune", "auth", "getpkg", "write", "save", "filter",
                      "star", "userstar", "unstar", "restar", "gitowner",
                      "notfound", "settle", "exists", "gitpack", "create",
                      "newpack", "rm", "done"}]
  /\ handler \in [Reqs -> {"none", "GETPackages", "GETPackagesSearch",
                           "GETPackagesFeatured", "GETPackagesDetails",
                           "GETPackagesVersionTarball",
                           "POSTPackagesEventUninstall",
                           "POSTPackagesStar", "DELETEPackagesStar",
                           "DELETEPackageVersion", "POSTPackages",
                           "DELETEPackagesName"}]
  /\ packages \in [Reqs -> {"none", "own", "cached"}]

Init ==
  /\ stored \in Catalogs
  /\ cached = stored
  /\ paginated_amount \in 1..MaxPaginate
  /\ pc = [r \in Reqs |-> "idle"]
  /\ handler = [r \in Reqs |-> "none"]
  /\ req = [r \in Reqs |-> NoReq]
  /\ params = [r \in Reqs |-> NoParams]
  /\ all_packages = [r \in Reqs |-> NotYet]
  /\ own = [r \in Reqs |-> <<>>]
  /\ packages = [r \in Reqs |-> "none"]
  /\ total_pages = [r \in Reqs |-> 0]
  /\ sorted = [r \in Reqs |-> <<>>]
  /\ res = [r \in Reqs |-> NoRes]
  /\ snapshot = [r \in Reqs |-> <<>>]
  /\ alone = [r \in Reqs |-> TRUE]
  /\ local = [r \in Reqs |-> NoLocals]
  /\ engine_filtered = [r \in Reqs |-> FALSE]
  /\ probe = NoProbe
  /\ user_stars = {}
  /\ responses = [r \in Reqs |-> 0]

\* The ghost `alone` when request r starts: r is alone if nothing else is in
\* flight, and whatever is in flight is no longer alone.
StartAlone(r) ==
  [s \in Reqs |->
     IF s = r THEN \A o \in Reqs \ {r} : ~InFlight(o)
     ELSE IF InFlight(s) THEN FALSE ELSE alone[s]]

\* Applies f's result `new` to the array that `which` names.
Store(r, which, new) ==
  IF which = "cached"
    THEN cached' = new /\ UNCHANGED own
    ELSE own' = [own EXCEPT ![r] = new] /\ UNCHANGED cached

\* ------------------------------------------------ GETPackages (34-93)
\* Lines 36-42: params from the query, then the call of data.GetAllPackages.
GETPackages_Start(r, page, sort, order) ==
  /\ Arrives(r)
  /\ pc' = [pc EXCEPT ![r] = "get"]
  /\ handler' = [handler EXCEPT ![r] = "GETPackages"]
  /\ req' = [req EXCEPT ![r] = [page |-> page, sort |-> sort, order |-> order, q |-> <<>>]]
  /\ params' = [params EXCEPT ![r] = [page |-> page,
                                     sort |-> QuerySort(sort, "downloads"),
                                     direction |-> order]]
  /\ all_packages' = [all_packages EXCEPT ![r] = NotYet]
  /\ own' = [own EXCEPT ![r] = <<>>]
  /\ packages' = [packages EXCEPT ![r] = "none"]
  /\ total_pages' = [total_pages EXCEPT ![r] = 0]
  /\ sorted' = [sorted EXCEPT ![r] = <<>>]
  /\ res' = [res EXCEPT ![r] = NoRes]
  /\ snapshot' = [snapshot EXCEPT ![r] = cached]
  /\ alone' = StartAlone(r)
  /\ UNCHANGED <<stored, cached, paginated_amount>>
  /\ UNCHANGED sideVars
  /\ UNCHANGED <<user_stars, responses>>

\* Lines 45-48: the retrieval failed; HandleError answers and the handler returns.
GETPackages_Error(r) ==
  /\ pc[r] = "get" /\ handler[r] = "GETPackages"
  /\ all_packages' = [all_packages EXCEPT ![r] = Failed]
  /\ res' = [res EXCEPT ![r] = [NoRes EXCEPT !.status = ErrorStatus]]
  /\ pc' = [pc EXCEPT ![r] = "done"]
  /\ UNCHANGED <<stored, cached, paginated_amount, handler, req, params, own,
                 packages, total_pages, sorted, snapshot, alone>>
  /\ UNCHANGED sideVars
  /\ responses' = [responses EXCEPT ![r] = @ + 1]
  /\ UNCHANGED user_stars

\* Lines 45-54: the retrieval succeeded; DeepCopy(all_packages.content) makes
\* the request's own array.
GETPackages_DeepCopy(r) ==
  /\ pc[r] = "get" /\ handler[r] = "GETPackages"
  /\ all_packages' = [all_packages EXCEPT ![r] = Retrieved]
  /\ own' = [own EXCEPT ![r] = cached]
  /\ pc' = [pc EXCEPT ![r] = "copy"]
  /\ UNCHANGED <<stored, cached, paginated_amount, handler, req, params,
                 packages, total_pages, sorted, res, snapshot, alone>>
  /\ UNCHANGED sideVars
  /\ UNCHANGED <<user_stars, responses>>

\* Lines 54-56: `packages` is the copy; Sort is called on all_packages.content,
\* the cached array, and sorts it.
GETPackages_Sort(r) ==
  /\ pc[r] = "copy" /\ handler[r] = "GETPackages"
  /\ Store(r, "cached", Sort(cached, params[r].sort))
  /\ packages' = [packages EXCEPT ![r] = "own"]
  /\ pc' = [pc EXCEPT ![r] = "sort"]
  /\ UNCHANGED <<stored, paginated_amount, handler, req, params, all_packages,
                 total_pages, sorted, res, snapshot, alone>>
  /\ UNCHANGED sideVars
  /\ UNCHANGED <<user_stars, responses>>

\* Lines 56-57: `packages` is what Sort returned, the array it was handed;
\* Direction is called on it.
GETPackages_Direction(r) ==
  /\ pc[r] = "sort" /\ handler[r] = "GETPackages"
  /\ Store(r, "cached", Direction(cached, params[r].direction))
  /\ packages' = [packages EXCEPT ![r] = "cached"]
  /\ pc' = [pc EXCEPT ![r] = "direction"]
  /\ UNCHANGED <<stored, paginated_amount, handler, req, params, all_packages,
                 total_pages, sorted, res, snapshot, alone>>
  /\ UNCHANGED sideVars
  /\ UNCHANGED <<user_stars, responses>>

\* Lines 57-71: total_pages, the two splices on `packages`, and the call of
\* POSPrune, which builds the pruned array.
GETPackages_Prune(r) ==
  /\ pc[r] = "direction" /\ handler[r] = "GETPackages"
  /\ LET arr == Deref(r)
         total == TotalPages(Len(arr), paginated_amount)
         left == Paginate(arr, params[r].page, total, paginated_amount)
     IN /\ total_pages' = [total_pages EXCEPT ![r] = total]
        /\ sorted' = [sorted EXCEPT ![r] = arr]
        /\ IF packages[r] = "cached"
             THEN /\ cached' = left
                  /\ own' = [own EXCEPT ![r] = POSPrune(left)]
             ELSE /\ own' = [own EXCEPT ![r] = POSPrune(left)]
                  /\ UNCHANGED cached
  /\ pc' = [pc EXCEPT ![r] = "prune"]
  /\ UNCHANGED <<stored, paginated_amount, handler, req, params, all_packages, packages,
                 res, snapshot, alone>>
  /\ UNCHANGED sideVars
  /\ UNCHANGED <<user_stars, responses>>

\* Lines 71-92: `packages` is the pruned array; the Link header (whose last
\* part increments params.page) and the 200 response.
GETPackages_Respond(r) ==
  /\ pc[r] = "prune" /\ handler[r] = "GETPackages"
  /\ res' = [res EXCEPT ![r] =
               [status |-> 200, body |-> own[r],
                link |-> Link(params[r].page, total_pages[r])]]
  /\ params' = [params EXCEPT ![r].page = PostIncrement(params[r].page).after]
  /\ packages' = [packages EXCEPT ![r] = "none"]
  /\ own' = [own EXCEPT ![r] = <<>>]
  /\ pc' = [pc EXCEPT ![r] = "done"]
  /\ UNCHANGED <<stored, cached, paginated_amount, handler, req, all_packages,
                 total_pages, sorted, snapshot, alone>>
  /\ UNCHANGED sideVars
  /\ responses' = [responses EXCEPT ![r] = @ + 1]
  /\ UNCHANGED user_stars

\* The handler once past its first await.
GETPackages_Resume(r) ==
  \/ GETPackages_Error(r)
  \/ GETPackages_DeepCopy(r)
  \/ GETPackages_Sort(r)
  \/ GETPackages_Direction(r)
  \/ GETPackages_Prune(r)
  \/ GETPackages_Respond(r)

GETPackages(r) ==
  \/ \E page \in Pages, sort \in ListSorts, order \in Directions :
       GETPackages_Start(r, page, sort, order)
  \/ GETPackages_Resume(r)

\* ------------------------------------------ GETPackagesSearch (229-287)
\* Lines 231-238.
GETPackagesSearch_Start(r, page, sort, order, q) ==
  /\ Arrives(r)
  /\ pc' = [pc EXCEPT ![r] = "get"]
  /\ handler' = [handler EXCEPT ![r] = "GETPackagesSearch"]
  /\ req' = [req EXCEPT ![r] = [page |-> page, sort |-> sort, order |-> order, q |-> q]]
  /\ params' = [params EXCEPT ![r] =
                  [sort |-> QuerySort(sort, "relevance"), page |-> page,
                   direction |-> order, query |-> q]]
  /\ all_packages' = [all_packages EXCEPT ![r] = NotYet]
  /\ own' = [own EXCEPT ![r] = <<>>]
  /\ packages' = [packages EXCEPT ![r] = "none"]
  /\ total_pages' = [total_pages EXCEPT ![r] = 0]
  /\ sorted' = [sorted EXCEPT ![r] = <<>>]
  /\ res' = [res EXCEPT ![r] = NoRes]
  /\ snapshot' = [snapshot EXCEPT ![r] = cached]
  /\ alone' = StartAlone(r)
  /\ UNCHANGED <<stored, cached, paginated_amount>>
  /\ UNCHANGED sideVars
  /\ UNCHANGED <<user_stars, responses>>

\* Lines 240-243.
GETPackagesSearch_Error(r) ==
  /\ pc[r] = "get" /\ handler[r] = "GETPackagesSearch"
  /\ all_packages' = [all_packages EXCEPT ![r] = Failed]
  /\ res' = [res EXCEPT ![r] = [NoRes EXCEPT !.status = ErrorStatus]]
  /\ pc' = [pc EXCEPT ![r] = "done"]
  /\ UNCHANGED <<stored, cached, paginated_amount, handler, req, params, own,
                 packages, total_pages, sorted, snapshot, alone>>
  /\ UNCHANGED sideVars
  /\ responses' = [responses EXCEPT ![r] = @ + 1]
  /\ UNCHANGED user_stars

\* Lines 240-245.
GETPackagesSearch_DeepCopy(r) ==
  /\ pc[r] = "get" /\ handler[r] = "GETPackagesSearch"
  /\ all_packages' = [all_packages EXCEPT ![r] = Retrieved]
  /\ own' = [own EXCEPT ![r] = cached]
  /\ pc' = [pc EXCEPT ![r] = "copy"]
  /\ UNCHANGED <<stored, cached, paginated_amount, handler, req, params,
                 packages, total_pages, sorted, res, snapshot, alone>>
  /\ UNCHANGED sideVars
  /\ UNCHANGED <<user_stars, responses>>

\* Lines 245-246: `packages` is the copy; SearchWithinPackages scores it.
GETPackagesSearch_Search(r) ==
  /\ pc[r] = "copy" /\ handler[r] = "GETPackagesSearch"
  /\ Store(r, "own", SearchWithinPackages(params[r].query, own[r]))
  /\ packages' = [packages EXCEPT ![r] = "own"]
  /\ pc' = [pc EXCEPT ![r] = "search"]
  /\ UNCHANGED <<stored, paginated_amount, handler, req, params, all_packages,
                 total_pages, sorted, res, snapshot, alone>>
  /\ UNCHANGED sideVars
  /\ UNCHANGED <<user_stars, responses>>

\* Lines 246-247: Sort is called on `packages`.
GETPackagesSearch_Sort(r) ==
  /\ pc[r] = "search" /\ handler[r] = "GETPackagesSearch"
  /\ Store(r, packages[r], Sort(Deref(r), params[r].sort))
  /\ pc' = [pc EXCEPT ![r] = "sort"]
  /\ UNCHANGED <<stored, paginated_amount, handler, req, params, all_packages, packages,
                 total_pages, sorted, res, snapshot, alone>>
  /\ UNCHANGED sideVars
  /\ UNCHANGED <<user_stars, responses>>

\* Lines 247-248: Direction is called on `packages`.
GETPackagesSearch_Direction(r) ==
  /\ pc[r] = "sort" /\ handler[r] = "GETPackagesSearch"
  /\ Store(r, packages[r], Direction(Deref(r), params[r].direction))
  /\ pc' = [pc EXCEPT ![r] = "direction"]
  /\ UNCHANGED <<stored, paginated_amount, handler, req, params, all_packages, packages,
                 total_pages, sorted, res, snapshot, alone>>
  /\ UNCHANGED sideVars
  /\ UNCHANGED <<user_stars, responses>>

\* Lines 248-265: total_pages, the two splices, the call of POSPrune.
GETPackagesSearch_Prune(r) ==
  /\ pc[r] = "direction" /\ handler[r] = "GETPackagesSearch"
  /\ LET arr == Deref(r)
         total == TotalPages(Len(arr), paginated_amount)
         left == Paginate(arr, params[r].page, total, paginated_amount)
     IN /\ total_pages' = [total_pages EXCEPT ![r] = total]
        /\ sorted' = [sorted EXCEPT ![r] = arr]
        /\ IF packages[r] = "cached"
             THEN /\ cached' = left
                  /\ own' = [own EXCEPT ![r] = POSPrune(left)]
             ELSE /\ own' = [own EXCEPT ![r] = POSPrune(left)]
                  /\ UNCHANGED cached
  /\ pc' = [pc EXCEPT ![r] = "prune"]
  /\ UNCHANGED <<stored, paginated_amount, handler, req, params, all_packages, packages,
                 res, snapshot, alone>>
  /\ UNCHANGED sideVars
  /\ UNCHANGED <<user_stars, responses>>

\* Lines 265-286.
GETPackagesSearch_Respond(r) ==
  /\ pc[r] = "prune" /\ handler[r] = "GETPackagesSearch"
  /\ res' = [res EXCEPT ![r] =
               [status |-> 200, body |-> own[r],
                link |-> Link(params[r].page, total_pages[r])]]
  /\ params' = [params EXCEPT ![r].page = PostIncrement(params[r].page).after]
  /\ packages' = [packages EXCEPT ![r] = "none"]
  /\ own' = [own EXCEPT ![r] = <<>>]
  /\ pc' = [pc EXCEPT ![r] = "done"]
  /\ UNCHANGED <<stored, cached, paginated_amount, handler, req, all_packages,
                 total_pages, sorted, snapshot, alone>>
  /\ UNCHANGED sideVars
  /\ responses' = [responses EXCEPT ![r] = @ + 1]
  /\ UNCHANGED user_stars

\* The handler once past its first await.
GETPackagesSearch_Resume(r) ==
  \/ GETPackagesSearch_Error(r)
  \/ GETPackagesSearch_DeepCopy(r)
  \/ GETPackagesSearch_Search(r)
  \/ GETPackagesSearch_Sort(r)
  \/ GETPackagesSearch_Direction(r)
  \/ GETPackagesSearch_Prune(r)
  \/ GETPackagesSearch_Respond(r)

GETPackagesSearch(r) ==
  \/ \E page \in Pages, sort \in SearchSorts, order \in Directions, q \in Queries :
       GETPackagesSearch_Start(r, page, sort, order, q)
  \/ GETPackagesSearch_Resume(r)

Next == \E r \in Reqs : GETPackages(r) \/ GETPackagesSearch(r)

Spec == Init /\ [][Next]_vars

\* The catalog of seven packages, no two with the same download count, in
\* pages of two or of three.
ScenarioDownloads == <<3, 6, 1, 7, 2, 5, 4>>
ScenarioPkgs == Len(ScenarioDownloads)
ScenarioInit ==
  /\ stored = [i \in 1..ScenarioPkgs |-> Package(i, ScenarioDownloads[i])]
  /\ cached = stored
  /\ paginated_amount \in {2, 3}
  /\ pc = [r \in Reqs |-> "idle"]
  /\ handler = [r \in Reqs |-> "none"]
  /\ req = [r \in Reqs |-> NoReq]
  /\ params = [r \in Reqs |-> NoParams]
  /\ all_packages = [r \in Reqs |-> NotYet]
  /\ own = [r \in Reqs |-> <<>>]
  /\ packages = [r \in Reqs |-> "none"]
  /\ total_pages = [r \in Reqs |-> 0]
  /\ sorted = [r \in Reqs |-> <<>>]
  /\ res = [r \in Reqs |-> NoRes]
  /\ snapshot = [r \in Reqs |-> <<>>]
  /\ alone = [r \in Reqs |-> TRUE]
  /\ local = [r \in Reqs |-> NoLocals]
  /\ engine_filtered = [r \in Reqs |-> FALSE]
  /\ probe = NoProbe
  /\ user_stars = {}
  /\ responses = [r \in Reqs |-> 0]

ScenarioSpec == ScenarioInit /\ [][Next]_vars

\* ------------------------------------------------- data.js, users.js
NotFound == [ok |-> FALSE, short |-> "Not Found"]
BadAuth == [ok |-> FALSE, short |-> "Bad Auth"]

\* The status of the error responses of common_handler.js.
StatusOf(short) ==
  CASE short = "Not Found" -> 404
    [] short = "Bad Auth" -> 401
    [] short = "Bad Repo" -> 400
    [] short = "Package Exists" -> 409
    [] OTHER -> ErrorStatus

Auths == {"valid-token", "invalid-token"}

\* The user the valid token is of, and another user, who sends no request.
UserName == "user"
OtherName == "other"

\* users.VerifyAuth(token)
VerifyAuth(auth) ==
  IF auth = "valid-token"
    THEN [ok |-> TRUE, short |-> "", content |-> [name |-> UserName]]
    ELSE BadAuth

\* The names a request may give: every stored package's, and one more.
PackageNames == { NameOf(i) : i \in 1..(Len(stored) + 1) }

Has(cat, name) == \E i \in 1..Len(cat) : cat[i].name = name
IndexOf(cat, name) == CHOOSE i \in 1..Len(cat) : cat[i].name = name

\* data.GetPackageByName(name): what the call may return.  The content is
\* read from disk and parsed, an object of the request's own.
GetPackageByName(cat, name) ==
  IF Has(cat, name)
    THEN {[ok |-> TRUE, short |-> "", content |-> cat[IndexOf(cat, name)]], Failed}
    ELSE {NotFound}

\* data.SetPackageByName(name, content): the catalog after a write that worked.
SetPackageByName(cat, name, content) ==
  IF Has(cat, name) THEN [cat EXCEPT ![IndexOf(cat, name)] = content] ELSE cat

\* ------------------------------ POSTPackagesEventUninstall (686-721)
\* Lines 692-720 and utils.LocalUserLoggedIn up to its await of VerifyAuth.
POSTPackagesEventUninstall_Start(r, name, auth) ==
  /\ Arrives(r)
  /\ pc' = [pc EXCEPT ![r] = "auth"]
  /\ handler' = [handler EXCEPT ![r] = "POSTPackagesEventUninstall"]
  /\ req' = [req EXCEPT ![r] = [packageName |-> name, auth |-> auth]]
  /\ params' = [params EXCEPT ![r] = [auth |-> auth, packageName |-> name]]
  /\ local' = [local EXCEPT ![r] = [NoLocals EXCEPT !.user = VerifyAuth(auth)]]
  /\ res' = [res EXCEPT ![r] = NoRes]
  /\ alone' = StartAlone(r)
  /\ UNCHANGED <<stored, engine_filtered, probe, snapshot>>
  /\ UNCHANGED listVars
  /\ UNCHANGED <<user_stars, responses>>

\* utils.LocalUserLoggedIn: the user is not logged in; onLogin is never called.
POSTPackagesEventUninstall_AuthFail(r) ==
  /\ pc[r] = "auth" /\ handler[r] = "POSTPackagesEventUninstall"
  /\ ~local[r].user.ok
  /\ res' = [res EXCEPT ![r] = [NoRes EXCEPT !.status = StatusOf(local[r].user.short)]]
  /\ pc' = [pc EXCEPT ![r] = "done"]
  /\ UNCHANGED <<stored, handler, req, params, alone, local, engine_filtered, probe, snapshot>>
  /\ UNCHANGED listVars
  /\ responses' = [responses EXCEPT ![r] = @ + 1]
  /\ UNCHANGED user_stars

\* Line 699: onLogin is called and calls data.GetPackageByName.
POSTPackagesEventUninstall_GetPackage(r) ==
  /\ pc[r] = "auth" /\ handler[r] = "POSTPackagesEventUninstall"
  /\ local[r].user.ok
  /\ \E pack \in GetPackageByName(stored, params[r].packageName) :
       local' = [local EXCEPT ![r].pack = pack]
  /\ snapshot' = [snapshot EXCEPT ![r] = stored]
  /\ pc' = [pc EXCEPT ![r] = "getpkg"]
  /\ UNCHANGED <<stored, handler, req, params, res, alone, engine_filtered, probe>>
  /\ UNCHANGED listVars
  /\ UNCHANGED <<user_stars, responses>>

\* Lines 701-704.
POSTPackagesEventUninstall_PackError(r) ==
  /\ pc[r] = "getpkg" /\ handler[r] = "POSTPackagesEventUninstall"
  /\ ~local[r].pack.ok
  /\ res' = [res EXCEPT ![r] = [NoRes EXCEPT !.status = StatusOf(local[r].pack.short)]]
  /\ pc' = [pc EXCEPT ![r] = "done"]
  /\ UNCHANGED <<stored, handler, req, params, alone, local, engine_filtered, probe, snapshot>>
  /\ UNCHANGED listVars
  /\ responses' = [responses EXCEPT ![r] = @ + 1]
  /\ UNCHANGED user_stars

\* Lines 706-708: downloads--, then the call of data.SetPackageByName.
POSTPackagesEventUninstall_Write(r) ==
  /\ pc[r] = "getpkg" /\ handler[r] = "POSTPackagesEventUninstall"
  /\ local[r].pack.ok
  /\ LET pack == [local[r].pack EXCEPT !.content.downloads = PostDecrement(@).after]
     IN \E ok \in BOOLEAN :
          /\ local' = [local EXCEPT ![r].pack = pack,
                                    ![r].write = IF ok THEN Retrieved ELSE Failed]
          /\ stored' = IF ok THEN SetPackageByName(stored, params[r].packageName,
                                                   pack.content)
                             ELSE stored
  /\ pc' = [pc EXCEPT ![r] = "write"]
  /\ UNCHANGED <<handler, req, params, res, alone, engine_filtered, probe, snapshot>>
  /\ UNCHANGED listVars
  /\ UNCHANGED <<user_stars, responses>>

\* Lines 710-713.
POSTPackagesEventUninstall_WriteError(r) ==
  /\ pc[r] = "write" /\ handler[r] = "POSTPackagesEventUninstall"
  /\ ~local[r].write.ok
  /\ res' = [res EXCEPT ![r] = [NoRes EXCEPT !.status = StatusOf(local[r].write.short)]]
  /\ pc' = [pc EXCEPT ![r] = "done"]
  /\ UNCHANGED <<stored, handler, req, params, alone, local, engine_filtered, probe, snapshot>>
  /\ UNCHANGED listVars
  /\ responses' = [responses EXCEPT ![r] = @ + 1]
  /\ UNCHANGED user_stars

\* Lines 715-717.
POSTPackagesEventUninstall_Respond(r) ==
  /\ pc[r] = "write" /\ handler[r] = "POSTPackagesEventUninstall"
  /\ local[r].write.ok
  /\ res' = [res EXCEPT ![r] = [NoRes EXCEPT !.status = 201]]
  /\ pc' = [pc EXCEPT ![r] = "done"]
  /\ UNCHANGED <<stored, handler, req, params, alone, local, engine_filtered, probe, snapshot>>
  /\ UNCHANGED listVars
  /\ responses' = [responses EXCEPT ![r] = @ + 1]
  /\ UNCHANGED user_stars

POSTPackagesEventUninstall(r) ==
  \/ \E name \in PackageNames, auth \in Auths :
       POSTPackagesEventUninstall_Start(r, name, auth)
  \/ POSTPackagesEventUninstall_AuthFail(r)
  \/ POSTPackagesEventUninstall_GetPackage(r)
  \/ POSTPackagesEventUninstall_PackError(r)
  \/ POSTPackagesEventUninstall_Write(r)
  \/ POSTPackagesEventUninstall_WriteError(r)
  \/ POSTPackagesEventUninstall_Respond(r)

\* ------------------------------- GETPackagesVersionTarball (573-619)
\* The version names a request may give: two semvers and a string that is none.
VersionNames == {SemverString(1, 0, 0), SemverString(1, 1, 0), <<Letter>>}

\* Lines 575-588: query.engine finds no valid version; NotFound.
GETPackagesVersionTarball_Invalid(r, name, versionName) ==
  /\ Arrives(r)
  /\ QueryEngine(versionName) = <<>>
  /\ handler' = [handler EXCEPT ![r] = "GETPackagesVersionTarball"]
  /\ req' = [req EXCEPT ![r] = [packageName |-> name, versionName |-> versionName]]
  /\ params' = [params EXCEPT ![r] = [packageName |-> name,
                                     versionName |-> QueryEngine(versionName)]]
  /\ local' = [local EXCEPT ![r] = NoLocals]
  /\ res' = [res EXCEPT ![r] = [NoRes EXCEPT !.status = StatusOf("Not Found")]]
  /\ pc' = [pc EXCEPT ![r] = "done"]
  /\ alone' = StartAlone(r)
  /\ UNCHANGED <<stored, engine_filtered, probe, snapshot>>
  /\ UNCHANGED listVars
  /\ responses' = [responses EXCEPT ![r] = @ + 1]
  /\ UNCHANGED user_stars

\* Lines 575-591: the version is a valid one; data.GetPackageByName is called.
GETPackagesVersionTarball_Start(r, name, versionName) ==
  /\ Arrives(r)
  /\ QueryEngine(versionName) # <<>>
  /\ handler' = [handler EXCEPT ![r] = "GETPackagesVersionTarball"]
  /\ req' = [req EXCEPT ![r] = [packageName |-> name, versionName |-> versionName]]
  /\ params' = [params EXCEPT ![r] = [packageName |-> name,
                                     versionName |-> QueryEngine(versionName)]]
  /\ \E pack \in GetPackageByName(stored, name) :
       local' = [local EXCEPT ![r] = [NoLocals EXCEPT !.pack = pack]]
  /\ res' = [res EXCEPT ![r] = NoRes]
  /\ snapshot' = [snapshot EXCEPT ![r] = stored]
  /\ pc' = [pc EXCEPT ![r] = "getpkg"]
  /\ alone' = StartAlone(r)
  /\ UNCHANGED <<stored, engine_filtered, probe>>
  /\ UNCHANGED listVars
  /\ UNCHANGED <<user_stars, responses>>

\* Whether the package was retrieved and has the version requested.
HasVersion(r) ==
  /\ local[r].pack.ok
  /\ params[r].versionName \in DOMAIN local[r].pack.content.versions

\* Lines 593-602: no package, or no such version of it.
GETPackagesVersionTarball_NotFound(r) ==
  /\ pc[r] = "getpkg" /\ handler[r] = "GETPackagesVersionTarball"
  /\ ~HasVersion(r)
  /\ res' = [res EXCEPT ![r] = [NoRes EXCEPT !.status = StatusOf("Not Found")]]
  /\ pc' = [pc EXCEPT ![r] = "done"]
  /\ UNCHANGED <<stored, handler, req, params, alone, local, engine_filtered, probe, snapshot>>
  /\ UNCHANGED listVars
  /\ responses' = [responses EXCEPT ![r] = @ + 1]
  /\ UNCHANGED user_stars

\* Lines 605-608: downloads++, then the call of data.SetPackageByName.
GETPackagesVersionTarball_Save(r) ==
  /\ pc[r] = "getpkg" /\ handler[r] = "GETPackagesVersionTarball"
  /\ HasVersion(r)
  /\ LET pack == [local[r].pack EXCEPT !.content.downloads = PostIncrement(@).after]
     IN \E ok \in BOOLEAN :
          /\ local' = [local EXCEPT ![r].pack = pack,
                                    ![r].save = IF ok THEN Retrieved ELSE Failed]
          /\ stored' = IF ok THEN SetPackageByName(stored, params[r].packageName,
                                                   pack.content)
                             ELSE stored
  /\ pc' = [pc EXCEPT ![r] = "save"]
  /\ UNCHANGED <<handler, req, params, res, alone, engine_filtered, probe, snapshot>>
  /\ UNCHANGED listVars
  /\ UNCHANGED <<user_stars, responses>>

\* Lines 610-618: a failed save is only logged; the redirect to the tarball.
GETPackagesVersionTarball_Redirect(r) ==
  /\ pc[r] = "save" /\ handler[r] = "GETPackagesVersionTarball"
  /\ res' = [res EXCEPT ![r] =
               [NoRes EXCEPT !.status = 302,
                             !.body = local[r].pack.content
                                        .versions[params[r].versionName].tarball_url]]
  /\ pc' = [pc EXCEPT ![r] = "done"]
  /\ UNCHANGED <<stored, handler, req, params, alone, local, engine_filtered, probe, snapshot>>
  /\ UNCHANGED listVars
  /\ responses' = [responses EXCEPT ![r] = @ + 1]
  /\ UNCHANGED user_stars

GETPackagesVersionTarball(r) ==
  \/ \E name \in PackageNames, versionName \in VersionNames :
       GETPackagesVersionTarball_Invalid(r, name, versionName)
  \/ \E name \in PackageNames, versionName \in VersionNames :
       GETPackagesVersionTarball_Start(r, name, versionName)
  \/ GETPackagesVersionTarball_NotFound(r)
  \/ GETPackagesVersionTarball_Save(r)
  \/ GETPackagesVersionTarball_Redirect(r)

\* The download counters' handlers, run concurrently.
EventNext ==
  \E r \in Reqs : POSTPackagesEventUninstall(r) \/ GETPackagesVersionTarball(r)

EventSpec == Init /\ [][EventNext]_vars

\* ----------------------------------------- GETPackagesFeatured (189-219)
\* data.GetFeatured(): what the call may return; the featured packages are
\* the first of the catalog.
GetFeatured(cat) ==
  {[ok |-> TRUE, short |-> "", content |-> SubSeq(cat, 1, Min(1, Len(cat)))], Failed}

\* Line 208: the call of data.GetFeatured.
GETPackagesFeatured_Start(r) ==
  /\ Arrives(r)
  /\ handler' = [handler EXCEPT ![r] = "GETPackagesFeatured"]
  /\ req' = [req EXCEPT ![r] = NoReq]
  /\ params' = [params EXCEPT ![r] = NoParams]
  /\ \E col \in GetFeatured(stored) :
       local' = [local EXCEPT ![r] = [NoLocals EXCEPT !.col = col]]
  /\ res' = [res EXCEPT ![r] = NoRes]
  /\ snapshot' = [snapshot EXCEPT ![r] = stored]
  /\ pc' = [pc EXCEPT ![r] = "get"]
  /\ alone' = StartAlone(r)
  /\ UNCHANGED <<stored, engine_filtered, probe>>
  /\ UNCHANGED listVars
  /\ UNCHANGED <<user_stars, responses>>

\* Lines 210-213.
GETPackagesFeatured_Error(r) ==
  /\ pc[r] = "get" /\ handler[r] = "GETPackagesFeatured"
  /\ ~local[r].col.ok
  /\ res' = [res EXCEPT ![r] = [NoRes EXCEPT !.status = StatusOf(local[r].col.short)]]
  /\ pc' = [pc EXCEPT ![r] = "done"]
  /\ UNCHANGED <<stored, handler, req, params, alone, local, engine_filtered, probe, snapshot>>
  /\ UNCHANGED listVars
  /\ responses' = [responses EXCEPT ![r] = @ + 1]
  /\ UNCHANGED user_stars

\* Line 215: the call of collection.DeepCopy.
GETPackagesFeatured_DeepCopy(r) ==
  /\ pc[r] = "get" /\ handler[r] = "GETPackagesFeatured"
  /\ local[r].col.ok
  /\ local' = [local EXCEPT ![r].newCol = local[r].col.content]
  /\ pc' = [pc EXCEPT ![r] = "copy"]
  /\ UNCHANGED <<stored, handler, req, params, res, alone, engine_filtered, probe, snapshot>>
  /\ UNCHANGED listVars
  /\ UNCHANGED <<user_stars, responses>>

\* Mutant of GETPackagesFeatured_Prune: the listing is engine-filtered too.
GETPackagesFeatured_PruneFiltered(r) ==
  /\ pc[r] = "copy" /\ handler[r] = "GETPackagesFeatured"
  /\ local' = [local EXCEPT ![r].newCol = POSPrune(@)]
  /\ engine_filtered' = [engine_filtered EXCEPT ![r] = TRUE]
  /\ pc' = [pc EXCEPT ![r] = "prune"]
  /\ UNCHANGED <<stored, handler, req, params, res, alone, probe, snapshot>>
  /\ UNCHANGED listVars
  /\ UNCHANGED <<user_stars, responses>>

\* Line 216: the call of collection.POSPrune.
GETPackagesFeatured_Prune(r) ==
  /\ pc[r] = "copy" /\ handler[r] = "GETPackagesFeatured"
  /\ local' = [local EXCEPT ![r].newCol = POSPrune(@)]
  /\ pc' = [pc EXCEPT ![r] = "prune"]
  /\ UNCHANGED <<stored, handler, req, params, res, alone, engine_filtered, probe, snapshot>>
  /\ UNCHANGED listVars
  /\ UNCHANGED <<user_stars, responses>>

\* Line 218.
GETPackagesFeatured_Respond(r) ==
  /\ pc[r] = "prune" /\ handler[r] = "GETPackagesFeatured"
  /\ res' = [res EXCEPT ![r] = [NoRes EXCEPT !.status = 200, !.body = local[r].newCol]]
  /\ pc' = [pc EXCEPT ![r] = "done"]
  /\ UNCHANGED <<stored, handler, req, params, alone, local, engine_filtered, probe, snapshot>>
  /\ UNCHANGED listVars
  /\ responses' = [responses EXCEPT ![r] = @ + 1]
  /\ UNCHANGED user_stars

GETPackagesFeatured(r) ==
  \/ GETPackagesFeatured_Start(r)
  \/ GETPackagesFeatured_Error(r)
  \/ GETPackagesFeatured_DeepCopy(r)
  \/ GETPackagesFeatured_Prune(r)
  \/ GETPackagesFeatured_Respond(r)

\* ------------------------------------------ GETPackagesDetails (289-314)
\* The engine query parameter a request may carry: none, one that is no
\* semver, and two semvers.
Engines == {<<>>, <<Letter>>, SemverString(1, 5, 0), SemverString(2, 0, 0)}

\* Lines 291-295: params, then the call of data.GetPackageByName.
GETPackagesDetails_Start(r, name, engine) ==
  /\ Arrives(r)
  /\ handler' = [handler EXCEPT ![r] = "GETPackagesDetails"]
  /\ req' = [req EXCEPT ![r] = [packageName |-> name, engine |-> engine]]
  /\ params' = [params EXCEPT ![r] = [engine |-> QueryEngine(engine), name |-> name]]
  /\ \E pack \in GetPackageByName(stored, name) :
       local' = [local EXCEPT ![r] = [NoLocals EXCEPT !.pack = pack]]
  /\ res' = [res EXCEPT ![r] = NoRes]
  /\ snapshot' = [snapshot EXCEPT ![r] = stored]
  /\ pc' = [pc EXCEPT ![r] = "getpkg"]
  /\ alone' = StartAlone(r)
  /\ UNCHANGED <<stored, engine_filtered, probe>>
  /\ UNCHANGED listVars
  /\ UNCHANGED <<user_stars, responses>>

\* Lines 297-300.
GETPackagesDetails_Error(r) ==
  /\ pc[r] = "getpkg" /\ handler[r] = "GETPackagesDetails"
  /\ ~local[r].pack.ok
  /\ res' = [res EXCEPT ![r] = [NoRes EXCEPT !.status = StatusOf(local[r].pack.short)]]
  /\ pc' = [pc EXCEPT ![r] = "done"]
  /\ UNCHANGED <<stored, handler, req, params, alone, local, engine_filtered, probe, snapshot>>
  /\ UNCHANGED listVars
  /\ responses' = [responses EXCEPT ![r] = @ + 1]
  /\ UNCHANGED user_stars

\* Line 303: the call of collection.DeepCopy(pack).
GETPackagesDetails_DeepCopy(r) ==
  /\ pc[r] = "getpkg" /\ handler[r] = "GETPackagesDetails"
  /\ local[r].pack.ok
  /\ pc' = [pc EXCEPT ![r] = "copy"]
  /\ UNCHANGED <<stored, handler, req, params, res, alone, local, engine_filtered, probe, snapshot>>
  /\ UNCHANGED listVars
  /\ UNCHANGED <<user_stars, responses>>

\* Line 304: pack is the copy; the call of collection.POFPrune(pack.content).
GETPackagesDetails_Prune(r) ==
  /\ pc[r] = "copy" /\ handler[r] = "GETPackagesDetails"
  /\ local' = [local EXCEPT ![r].pack = POFPrune(@.content)]
  /\ pc' = [pc EXCEPT ![r] = "prune"]
  /\ UNCHANGED <<stored, handler, req, params, res, alone, engine_filtered, probe, snapshot>>
  /\ UNCHANGED listVars
  /\ UNCHANGED <<user_stars, responses>>

\* Mutant of GETPackagesDetails_EngineFilter: the truthiness of params.engine
\* is not checked, and no range contains what is no version.
GETPackagesDetails_EngineFilterUnchecked(r) ==
  /\ pc[r] = "prune" /\ handler[r] = "GETPackagesDetails"
  /\ local' = [local EXCEPT ![r].pack =
                 IF params[r].engine # <<>> THEN EngineFilter(@, params[r].engine)
                 ELSE [@ EXCEPT !.versions = [ver \in {} |-> ver]]]
  /\ engine_filtered' = [engine_filtered EXCEPT ![r] = TRUE]
  /\ pc' = [pc EXCEPT ![r] = "filter"]
  /\ UNCHANGED <<stored, handler, req, params, res, alone, probe, snapshot>>
  /\ UNCHANGED listVars
  /\ UNCHANGED <<user_stars, responses>>

\* Mutant of GETPackagesDetails_EngineFilter: the call is made and its result
\* dropped, the package going on with all of its versions.
GETPackagesDetails_EngineFilterDropped(r) ==
  /\ pc[r] = "prune" /\ handler[r] = "GETPackagesDetails"
  /\ params[r].engine # <<>>
  /\ engine_filtered' = [engine_filtered EXCEPT ![r] = TRUE]
  /\ pc' = [pc EXCEPT ![r] = "filter"]
  /\ UNCHANGED <<stored, handler, req, params, res, alone, local, probe, snapshot>>
  /\ UNCHANGED listVars
  /\ UNCHANGED <<user_stars, responses>>

\* Lines 306-309: params.engine is truthy; the call of collection.EngineFilter.
GETPackagesDetails_EngineFilter(r) ==
  /\ pc[r] = "prune" /\ handler[r] = "GETPackagesDetails"
  /\ params[r].engine # <<>>
  /\ local' = [local EXCEPT ![r].pack = EngineFilter(@, params[r].engine)]
  /\ engine_filtered' = [engine_filtered EXCEPT ![r] = TRUE]
  /\ pc' = [pc EXCEPT ![r] = "filter"]
  /\ UNCHANGED <<stored, handler, req, params, res, alone, probe, snapshot>>
  /\ UNCHANGED listVars
  /\ UNCHANGED <<user_stars, responses>>

\* Lines 306-313: the response, after the filter or with params.engine falsy.
GETPackagesDetails_Respond(r) ==
  /\ handler[r] = "GETPackagesDetails"
  /\ pc[r] = "filter" \/ (pc[r] = "prune" /\ params[r].engine = <<>>)
  /\ res' = [res EXCEPT ![r] = [NoRes EXCEPT !.status = 200, !.body = local[r].pack]]
  /\ pc' = [pc EXCEPT ![r] = "done"]
  /\ UNCHANGED <<stored, handler, req, params, alone, local, engine_filtered, probe, snapshot>>
  /\ UNCHANGED listVars
  /\ responses' = [responses EXCEPT ![r] = @ + 1]
  /\ UNCHANGED user_stars

GETPackagesDetails(r) ==
  \/ \E name \in PackageNames, engine \in Engines :
       GETPackagesDetails_Start(r, name, engine)
  \/ GETPackagesDetails_Error(r)
  \/ GETPackagesDetails_DeepCopy(r)
  \/ GETPackagesDetails_Prune(r)
  \/ GETPackagesDetails_EngineFilter(r)
  \/ GETPackagesDetails_Respond(r)

\* The four read handlers, run concurrently.
ViewNext ==
  \E r \in Reqs :
    \/ GETPackages(r)
    \/ GETPackagesSearch(r)
    \/ GETPackagesFeatured(r)
    \/ GETPackagesDetails(r)

ViewSpec == Init /\ [][ViewNext]_vars

\* ---------------------------------------- requests with no valid sort key
UnknownSort == "rating"

\* The sort parameter left out, and one that names no sort key.
FallbackSorts == {"", UnknownSort}

\* The listing and search handlers, serving such requests.
FallbackNext ==
  \E r \in Reqs :
    \/ \E page \in Pages, sort \in FallbackSorts, order \in Directions :
         GETPackages_Start(r, page, sort, order)
    \/ GETPackages_Resume(r)
    \/ \E page \in Pages, sort \in FallbackSorts, order \in Directions, q \in Queries :
         GETPackagesSearch_Start(r, page, sort, order, q)
    \/ GETPackagesSearch_Resume(r)

FallbackSpec == Init /\ [][FallbackNext]_vars

\* ------------------------- search.js and collection.js, called directly
RECURSIVE StringsOf(_)
\* The strings of length n over a hyphen and the two letters of the names.
StringsOf(n) ==
  IF n = 0 THEN {<<>>}
  ELSE { <<c>> \o t : c \in {Hyphen, 1, 2}, t \in StringsOf(n - 1) }

Strings == UNION { StringsOf(n) : n \in 0..MaxStrLen }

\* One call of the similarity algorithm selected.  (A behaviour makes one
\* direct call: the functions keep no state from call to call.)
Search_Score(algorithm, a, b) ==
  /\ probe = NoProbe
  /\ probe' = [fn |-> "score", algorithm |-> algorithm, a |-> a, b |-> b,
               value |-> Similarity(algorithm, a, b)]
  /\ UNCHANGED <<stored, pc, handler, req, params, res, snapshot, alone, local,
                 engine_filtered>>
  /\ UNCHANGED listVars
  /\ UNCHANGED <<user_stars, responses>>

\* collection.Sort and collection.Direction as the handlers call them, one
\* after the other (lines 56-57, 247-248), on the stored catalog, scored.
Collection_Sort(q, method, direction) ==
  /\ probe = NoProbe
  /\ LET arr == SearchWithinPackages(q, stored)
     IN probe' = [fn |-> "sort", arr |-> arr, method |-> method,
                  direction |-> direction,
                  value |-> Direction(Sort(arr, method), direction)]
  /\ UNCHANGED <<stored, pc, handler, req, params, res, snapshot, alone, local,
                 engine_filtered>>
  /\ UNCHANGED listVars
  /\ UNCHANGED <<user_stars, responses>>

\* collection.Direction called on the stored catalog, and again on its result.
Collection_Direction(direction) ==
  /\ probe = NoProbe
  /\ probe' = [fn |-> "direction", arr |-> stored, direction |-> direction,
               value |-> Direction(stored, direction),
               twice |-> Direction(Direction(stored, direction), direction)]
  /\ UNCHANGED <<stored, pc, handler, req, params, res, snapshot, alone, local,
                 engine_filtered>>
  /\ UNCHANGED listVars
  /\ UNCHANGED <<user_stars, responses>>

\* The similarity algorithms take no part of the catalog: they are called
\* with the catalog empty.
ScoreInit == Init /\ stored = <<>> /\ paginated_amount = 1

ScoreNext ==
  \E algorithm \in Algorithms, a \in Strings, b \in Strings :
    Search_Score(algorithm, a, b)

ScoreSpec == ScoreInit /\ [][ScoreNext]_vars

CollectionNext ==
  \/ \E q \in Queries, method \in ValidSorts, direction \in Directions :
       Collection_Sort(q, method, direction)
  \/ \E direction \in Directions : Collection_Direction(direction)

CollectionSpec == Init /\ [][CollectionNext]_vars

\* ------------------------------------- the handlers that change the catalog
\* res.status(..).json(..) and the error handlers of common_handler.js: the
\* client gets the first response sent for its request.
Send(r, response) ==
  /\ res' = [res EXCEPT ![r] = IF responses[r] = 0 THEN response ELSE @]
  /\ responses' = [responses EXCEPT ![r] = @ + 1]

\* A response of status s and no body.
Status(s) == [NoRes EXCEPT !.status = s]

\* What a handler step that is no start of a request leaves alone.
fixedVars == <<handler, req, params, alone, engine_filtered, probe>>

\* data.StarPackageByName(name, user): what the call may return, each with
\* the catalog after it.  Star gazers are a set: a user is listed once.
StarPackageByName(cat, name, user) ==
  IF ~Has(cat, name) THEN {[result |-> NotFound, after |-> cat]}
  ELSE LET i == IndexOf(cat, name)
           pack == [cat[i] EXCEPT !.star_gazers = @ \cup {user}]
       IN {[result |-> Failed, after |-> cat],
           [result |-> [ok |-> TRUE, short |-> "", content |-> pack],
            after |-> [cat EXCEPT ![i] = pack]]}

\* data.UnStarPackageByName(name, user): it fails for a package that does not
\* list the user (lines 437-440).
UnStarPackageByName(cat, name, user) ==
  IF ~Has(cat, name) THEN {[result |-> NotFound, after |-> cat]}
  ELSE LET i == IndexOf(cat, name)
           pack == [cat[i] EXCEPT !.star_gazers = @ \ {user}]
       IN IF user \notin cat[i].star_gazers
            THEN {[result |-> NotFound, after |-> cat]}
            ELSE {[result |-> Failed, after |-> cat],
                  [result |-> [ok |-> TRUE, short |-> "", content |-> pack],
                   after |-> [cat EXCEPT ![i] = pack]]}

\* users.AddUserStar(name, user): what the call may return, each with the
\* user's stars after it.
AddUserStar(stars, name) ==
  {[result |-> Failed, after |-> stars],
   [result |-> Retrieved, after |-> stars \cup {name}]}

\* users.RemoveUserStar(name, user)
RemoveUserStar(stars, name) ==
  {[result |-> Failed, after |-> stars],
   [result |-> Retrieved, after |-> stars \ {name}]}

\* --------------------------------------------- POSTPackagesStar (357-410)
\* Lines 359-363: params, then the call of users.VerifyAuth.
POSTPackagesStar_Start(r, name, auth) ==
  /\ Arrives(r)
  /\ pc' = [pc EXCEPT ![r] = "auth"]
  /\ handler' = [handler EXCEPT ![r] = "POSTPackagesStar"]
  /\ req' = [req EXCEPT ![r] = [packageName |-> name, auth |-> auth]]
  /\ params' = [params EXCEPT ![r] = [auth |-> auth, packageName |-> name]]
  /\ local' = [local EXCEPT ![r] = [NoLocals EXCEPT !.user = VerifyAuth(auth)]]
  /\ res' = [res EXCEPT ![r] = NoRes]
  /\ alone' = StartAlone(r)
  /\ UNCHANGED <<stored, engine_filtered, probe, snapshot, user_stars, responses>>
  /\ UNCHANGED listVars

\* Lines 407-409: common.AuthFail.
POSTPackagesStar_AuthFail(r) ==
  /\ pc[r] = "auth" /\ handler[r] = "POSTPackagesStar"
  /\ ~local[r].user.ok
  /\ Send(r, Status(StatusOf(local[r].user.short)))
  /\ pc' = [pc EXCEPT ![r] = "done"]
  /\ UNCHANGED <<stored, local, snapshot, user_stars>>
  /\ UNCHANGED fixedVars
  /\ UNCHANGED listVars

\* Lines 365-370: the call of data.StarPackageByName.
POSTPackagesStar_Star(r) ==
  /\ pc[r] = "auth" /\ handler[r] = "POSTPackagesStar"
  /\ local[r].user.ok
  /\ \E pack \in StarPackageByName(stored, params[r].packageName,
                                   local[r].user.content.name) :
       /\ local' = [local EXCEPT ![r].pack = pack.result]
       /\ stored' = pack.after
  /\ snapshot' = [snapshot EXCEPT ![r] = stored]
  /\ pc' = [pc EXCEPT ![r] = "star"]
  /\ UNCHANGED <<res, user_stars, responses>>
  /\ UNCHANGED fixedVars
  /\ UNCHANGED listVars

\* Lines 403-406: the star was not applied to the package; common.ServerError.
POSTPackagesStar_StarError(r) ==
  /\ pc[r] = "star" /\ handler[r] = "POSTPackagesStar"
  /\ ~local[r].pack.ok
  /\ Send(r, Status(ErrorStatus))
  /\ pc' = [pc EXCEPT ![r] = "done"]
  /\ UNCHANGED <<stored, local, snapshot, user_stars>>
  /\ UNCHANGED fixedVars
  /\ UNCHANGED listVars

\* Lines 372-374: the call of users.AddUserStar.
POSTPackagesStar_AddUserStar(r) ==
  /\ pc[r] = "star" /\ handler[r] = "POSTPackagesStar"
  /\ local[r].pack.ok
  /\ \E star \in AddUserStar(user_stars, params[r].packageName) :
       /\ local' = [local EXCEPT ![r].star = star.result]
       /\ user_stars' = star.after
  /\ pc' = [pc EXCEPT ![r] = "userstar"]
  /\ UNCHANGED <<stored, res, snapshot, responses>>
  /\ UNCHANGED fixedVars
  /\ UNCHANGED listVars

\* Lines 376-379: both stars were applied; the package is returned.
POSTPackagesStar_Respond(r) ==
  /\ pc[r] = "userstar" /\ handler[r] = "POSTPackagesStar"
  /\ local[r].star.ok
  /\ Send(r, [NoRes EXCEPT !.status = 200, !.body = local[r].pack.content])
  /\ pc' = [pc EXCEPT ![r] = "done"]
  /\ UNCHANGED <<stored, local, snapshot, user_stars>>
  /\ UNCHANGED fixedVars
  /\ UNCHANGED listVars

\* Mutant of POSTPackagesStar_Unstar: the star is left on the package.
POSTPackagesStar_UnstarSkipped(r) ==
  /\ pc[r] = "userstar" /\ handler[r] = "POSTPackagesStar"
  /\ ~local[r].star.ok
  /\ local' = [local EXCEPT ![r].unstar = Retrieved]
  /\ pc' = [pc EXCEPT ![r] = "unstar"]
  /\ UNCHANGED <<stored, res, snapshot, user_stars, responses>>
  /\ UNCHANGED fixedVars
  /\ UNCHANGED listVars

\* Lines 380-385: the user's star failed; the call of data.UnStarPackageByName.
POSTPackagesStar_Unstar(r) ==
  /\ pc[r] = "userstar" /\ handler[r] = "POSTPackagesStar"
  /\ ~local[r].star.ok
  /\ \E unstar \in UnStarPackageByName(stored, params[r].packageName,
                                       local[r].user.content.name) :
       /\ local' = [local EXCEPT ![r].unstar = unstar.result]
       /\ stored' = unstar.after
  /\ pc' = [pc EXCEPT ![r] = "unstar"]
  /\ UNCHANGED <<res, snapshot, user_stars, responses>>
  /\ UNCHANGED fixedVars
  /\ UNCHANGED listVars

\* Lines 387-401: a server error, whether the unstar worked (common.ServerError)
\* or not (error.ServerErrorJSON).
POSTPackagesStar_UnstarRespond(r) ==
  /\ pc[r] = "unstar" /\ handler[r] = "POSTPackagesStar"
  /\ Send(r, Status(ErrorStatus))
  /\ pc' = [pc EXCEPT ![r] = "done"]
  /\ UNCHANGED <<stored, local, snapshot, user_stars>>
  /\ UNCHANGED fixedVars
  /\ UNCHANGED listVars

POSTPackagesStar(r) ==
  \/ \E name \in PackageNames, auth \in Auths : POSTPackagesStar_Start(r, name, auth)
  \/ POSTPackagesStar_AuthFail(r)
  \/ POSTPackagesStar_Star(r)
  \/ POSTPackagesStar_StarError(r)
  \/ POSTPackagesStar_AddUserStar(r)
  \/ POSTPackagesStar_Respond(r)
  \/ POSTPackagesStar_Unstar(r)
  \/ POSTPackagesStar_UnstarRespond(r)

\* ------------------------------------------- DELETEPackagesStar (412-469)
\* Lines 414-468 and utils.LocalUserLoggedIn up to its await of VerifyAuth.
DELETEPackagesStar_Start(r, name, auth) ==
  /\ Arrives(r)
  /\ pc' = [pc EXCEPT ![r] = "auth"]
  /\ handler' = [handler EXCEPT ![r] = "DELETEPackagesStar"]
  /\ req' = [req EXCEPT ![r] = [packageName |-> name, auth |-> auth]]
  /\ params' = [params EXCEPT ![r] = [auth |-> auth, packageName |-> name]]
  /\ local' = [local EXCEPT ![r] = [NoLocals EXCEPT !.user = VerifyAuth(auth)]]
  /\ res' = [res EXCEPT ![r] = NoRes]
  /\ alone' = StartAlone(r)
  /\ UNCHANGED <<stored, engine_filtered, probe, snapshot, user_stars, responses>>
  /\ UNCHANGED listVars

\* utils.LocalUserLoggedIn: the user is not logged in; onLogin is never called.
DELETEPackagesStar_AuthFail(r) ==
  /\ pc[r] = "auth" /\ handler[r] = "DELETEPackagesStar"
  /\ ~local[r].user.ok
  /\ Send(r, Status(StatusOf(local[r].user.short)))
  /\ pc' = [pc EXCEPT ![r] = "done"]
  /\ UNCHANGED <<stored, local, snapshot, user_stars>>
  /\ UNCHANGED fixedVars
  /\ UNCHANGED listVars

\* Lines 419-424: onLogin is called and calls data.UnStarPackageByName.
DELETEPackagesStar_Unstar(r) ==
  /\ pc[r] = "auth" /\ handler[r] = "DELETEPackagesStar"
  /\ local[r].user.ok
  /\ \E pack \in UnStarPackageByName(stored, params[r].packageName,
                                     local[r].user.content.name) :
       /\ local' = [local EXCEPT ![r].pack = pack.result]
       /\ stored' = pack.after
  /\ snapshot' = [snapshot EXCEPT ![r] = stored]
  /\ pc' = [pc EXCEPT ![r] = "star"]
  /\ UNCHANGED <<res, user_stars, responses>>
  /\ UNCHANGED fixedVars
  /\ UNCHANGED listVars

\* Lines 426-429.
DELETEPackagesStar_PackError(r) ==
  /\ pc[r] = "star" /\ handler[r] = "DELETEPackagesStar"
  /\ ~local[r].pack.ok
  /\ Send(r, Status(StatusOf(local[r].pack.short)))
  /\ pc' = [pc EXCEPT ![r] = "done"]
  /\ UNCHANGED <<stored, local, snapshot, user_stars>>
  /\ UNCHANGED fixedVars
  /\ UNCHANGED listVars

\* Lines 431-434: the call of users.RemoveUserStar.
DELETEPackagesStar_RemoveUserStar(r) ==
  /\ pc[r] = "star" /\ handler[r] = "DELETEPackagesStar"
  /\ local[r].pack.ok
  /\ \E unstar \in RemoveUserStar(user_stars, params[r].packageName) :
       /\ local' = [local EXCEPT ![r].unstar = unstar.result]
       /\ user_stars' = unstar.after
  /\ pc' = [pc EXCEPT ![r] = "userstar"]
  /\ UNCHANGED <<stored, res, snapshot, responses>>
  /\ UNCHANGED fixedVars
  /\ UNCHANGED listVars

\* Line 465: the star is removed from the package and from the user.
DELETEPackagesStar_Respond(r) ==
  /\ pc[r] = "userstar" /\ handler[r] = "DELETEPackagesStar"
  /\ local[r].unstar.ok
  /\ Send(r, Status(201))
  /\ pc' = [pc EXCEPT ![r] = "done"]
  /\ UNCHANGED <<stored, local, snapshot, user_stars>>
  /\ UNCHANGED fixedVars
  /\ UNCHANGED listVars

\* Mutant of DELETEPackagesStar_Restar: the package is left without the star.
DELETEPackagesStar_RestarSkipped(r) ==
  /\ pc[r] = "userstar" /\ handler[r] = "DELETEPackagesStar"
  /\ ~local[r].unstar.ok
  /\ local' = [local EXCEPT ![r].restar = Retrieved]
  /\ pc' = [pc EXCEPT ![r] = "restar"]
  /\ UNCHANGED <<stored, res, snapshot, user_stars, responses>>
  /\ UNCHANGED fixedVars
  /\ UNCHANGED listVars

\* Lines 436-444: the user's unstar failed; the call of data.StarPackageByName.
DELETEPackagesStar_Restar(r) ==
  /\ pc[r] = "userstar" /\ handler[r] = "DELETEPackagesStar"
  /\ ~local[r].unstar.ok
  /\ \E restar \in StarPackageByName(stored, params[r].packageName,
                                     local[r].user.content.name) :
       /\ local' = [local EXCEPT ![r].restar = restar.result]
       /\ stored' = restar.after
  /\ pc' = [pc EXCEPT ![r] = "restar"]
  /\ UNCHANGED <<res, snapshot, user_stars, responses>>
  /\ UNCHANGED fixedVars
  /\ UNCHANGED listVars

\* Lines 446-461: a server error, whether the restar worked (common.ServerError)
\* or not (error.ServerErrorJSON).
DELETEPackagesStar_RestarRespond(r) ==
  /\ pc[r] = "restar" /\ handler[r] = "DELETEPackagesStar"
  /\ Send(r, Status(ErrorStatus))
  /\ pc' = [pc EXCEPT ![r] = "done"]
  /\ UNCHANGED <<stored, local, snapshot, user_stars>>
  /\ UNCHANGED fixedVars
  /\ UNCHANGED listVars

DELETEPackagesStar(r) ==
  \/ \E name \in PackageNames, auth \in Auths : DELETEPackagesStar_Start(r, name, auth)
  \/ DELETEPackagesStar_AuthFail(r)
  \/ DELETEPackagesStar_Unstar(r)
  \/ DELETEPackagesStar_PackError(r)
  \/ DELETEPackagesStar_RemoveUserStar(r)
  \/ DELETEPackagesStar_Respond(r)
  \/ DELETEPackagesStar_Restar(r)
  \/ DELETEPackagesStar_RestarRespond(r)

\* The catalogs whose packages carry stars, of the user and of another.
StarCatalogs ==
  UNION { { [i \in 1..n |-> [Package(i, 0) EXCEPT !.star_gazers = g[i]]]
              : g \in [1..n -> SUBSET {UserName, OtherName}] }
          : n \in 0..MaxPkgs }

\* The packages of a catalog that list the user among their star gazers.
StarredBy(cat, user) ==
  { cat[i].name : i \in { k \in 1..Len(cat) : user \in cat[k].star_gazers } }

\* The star handlers start with the two lists of stars in agreement.
StarInit ==
  /\ stored \in StarCatalogs
  /\ cached = stored
  /\ paginated_amount = 1
  /\ pc = [r \in Reqs |-> "idle"]
  /\ handler = [r \in Reqs |-> "none"]
  /\ req = [r \in Reqs |-> NoReq]
  /\ params = [r \in Reqs |-> NoParams]
  /\ all_packages = [r \in Reqs |-> NotYet]
  /\ own = [r \in Reqs |-> <<>>]
  /\ packages = [r \in Reqs |-> "none"]
  /\ total_pages = [r \in Reqs |-> 0]
  /\ sorted = [r \in Reqs |-> <<>>]
  /\ res = [r \in Reqs |-> NoRes]
  /\ snapshot = [r \in Reqs |-> <<>>]
  /\ alone = [r \in Reqs |-> TRUE]
  /\ local = [r \in Reqs |-> NoLocals]
  /\ engine_filtered = [r \in Reqs |-> FALSE]
  /\ probe = NoProbe
  /\ user_stars = StarredBy(stored, UserName)
  /\ responses = [r \in Reqs |-> 0]

\* The two star handlers, run concurrently.
StarNext == \E r \in Reqs : POSTPackagesStar(r) \/ DELETEPackagesStar(r)

StarSpec == StarInit /\ [][StarNext]_vars

\* ------------------------------------------------------------------ git.js
NoRepoAccess == [ok |-> FALSE, short |-> "No Repo Access"]

\* git.Ownership(user, repo): what the call may return; who owns a repository
\* is for the git host to say.
Ownership(user, repo) == {Retrieved, NoRepoAccess}

\* ----------------------------------------- DELETEPackageVersion (621-676)
\* The string "description", the name of a property of a package object.
DescriptionString == [i \in 1..11 |-> Letter]

\* The version names a request may give: those of the tarball requests, and
\* one that is the name of a property.
DeleteVersionNames == VersionNames \cup {DescriptionString}

\* Whether the object has an own property of that name (of the properties of
\* a package object, the strings modelled name only the description).
HasProperty(content, key) ==
  key = DescriptionString /\ "description" \in DOMAIN content

\* content[key], read as a condition: a property that is a non-empty string.
Truthy(content, key) ==
  HasProperty(content, key) /\ content.description # <<>>

\* delete content[key]: the object without that property, if it had it.
DeleteProperty(content, key) ==
  IF HasProperty(content, key)
    THEN [f \in DOMAIN content \ {"description"} |-> content[f]]
    ELSE content

\* A promise, read as a result object: its .ok and its .short are undefined.
\* .value is what it settles to.
Promise(value) == [ok |-> FALSE, short |-> "undefined", value |-> value]

\* Lines 630-635: params, then the call of users.VerifyAuth.
DELETEPackageVersion_Start(r, name, versionName, auth) ==
  /\ Arrives(r)
  /\ pc' = [pc EXCEPT ![r] = "auth"]
  /\ handler' = [handler EXCEPT ![r] = "DELETEPackageVersion"]
  /\ req' = [req EXCEPT ![r] = [packageName |-> name, versionName |-> versionName,
                                auth |-> auth]]
  /\ params' = [params EXCEPT ![r] = [auth |-> auth, packageName |-> name,
                                     versionName |-> versionName]]
  /\ local' = [local EXCEPT ![r] = [NoLocals EXCEPT !.user = VerifyAuth(auth)]]
  /\ res' = [res EXCEPT ![r] = NoRes]
  /\ alone' = StartAlone(r)
  /\ UNCHANGED <<stored, engine_filtered, probe, snapshot, user_stars, responses>>
  /\ UNCHANGED listVars

\* Lines 637-640: common.AuthFail.
DELETEPackageVersion_AuthFail(r) ==
  /\ pc[r] = "auth" /\ handler[r] = "DELETEPackageVersion"
  /\ ~local[r].user.ok
  /\ Send(r, Status(StatusOf(local[r].user.short)))
  /\ pc' = [pc EXCEPT ![r] = "done"]
  /\ UNCHANGED <<stored, local, snapshot, user_stars>>
  /\ UNCHANGED fixedVars
  /\ UNCHANGED listVars

\* Line 642: the call of git.Ownership.
DELETEPackageVersion_Ownership(r) ==
  /\ pc[r] = "auth" /\ handler[r] = "DELETEPackageVersion"
  /\ local[r].user.ok
  /\ \E gitowner \in Ownership(local[r].user.content, params[r].packageName) :
       local' = [local EXCEPT ![r].gitowner = gitowner]
  /\ pc' = [pc EXCEPT ![r] = "gitowner"]
  /\ UNCHANGED <<stored, res, snapshot, user_stars, responses>>
  /\ UNCHANGED fixedVars
  /\ UNCHANGED listVars

\* Lines 644-647.
DELETEPackageVersion_OwnerError(r) ==
  /\ pc[r] = "gitowner" /\ handler[r] = "DELETEPackageVersion"
  /\ ~local[r].gitowner.ok
  /\ Send(r, Status(StatusOf(local[r].gitowner.short)))
  /\ pc' = [pc EXCEPT ![r] = "done"]
  /\ UNCHANGED <<stored, local, snapshot, user_stars>>
  /\ UNCHANGED fixedVars
  /\ UNCHANGED listVars

\* Line 649: the call of data.GetPackageByName.
DELETEPackageVersion_GetPackage(r) ==
  /\ pc[r] = "gitowner" /\ handler[r] = "DELETEPackageVersion"
  /\ local[r].gitowner.ok
  /\ \E pack \in GetPackageByName(stored, params[r].packageName) :
       local' = [local EXCEPT ![r].pack = pack]
  /\ snapshot' = [snapshot EXCEPT ![r] = stored]
  /\ pc' = [pc EXCEPT ![r] = "getpkg"]
  /\ UNCHANGED <<stored, res, user_stars, responses>>
  /\ UNCHANGED fixedVars
  /\ UNCHANGED listVars

\* Lines 651-655.
DELETEPackageVersion_PackError(r) ==
  /\ pc[r] = "getpkg" /\ handler[r] = "DELETEPackageVersion"
  /\ ~local[r].pack.ok
  /\ Send(r, Status(StatusOf(local[r].pack.short)))
  /\ pc' = [pc EXCEPT ![r] = "done"]
  /\ UNCHANGED <<stored, local, snapshot, user_stars>>
  /\ UNCHANGED fixedVars
  /\ UNCHANGED listVars

\* Line 657: the package was retrieved and pack.content[params.versionName],
\* a property of the package object itself, is truthy.
VersionFound(r) ==
  /\ local[r].pack.ok
  /\ Truthy(local[r].pack.content, params[r].versionName)

\* Line 657: the package was retrieved and has no such property.
VersionMissing(r) ==
  /\ local[r].pack.ok
  /\ ~Truthy(local[r].pack.content, params[r].versionName)

\* Lines 657-661: common.NotFound is called and awaited; no return follows.
DELETEPackageVersion_NotFound(r) ==
  /\ pc[r] = "getpkg" /\ handler[r] = "DELETEPackageVersion"
  /\ VersionMissing(r)
  /\ Send(r, Status(StatusOf("Not Found")))
  /\ pc' = [pc EXCEPT ![r] = "notfound"]
  /\ UNCHANGED <<stored, local, snapshot, user_stars>>
  /\ UNCHANGED fixedVars
  /\ UNCHANGED listVars

\* Lines 663-672, reached with the property there and after common.NotFound
\* alike: the delete; the call of data.SetPackageByName, which is not awaited,
\* so that `write` is its promise and !write.ok holds whatever the write
\* does; common.HandleError(req, res, write).  Lines 674-675, the 204, are
\* never reached.
DELETEPackageVersion_Write(r) ==
  /\ handler[r] = "DELETEPackageVersion"
  /\ pc[r] = "notfound" \/ (pc[r] = "getpkg" /\ VersionFound(r))
  /\ local' = [local EXCEPT
                 ![r].pack.content = DeleteProperty(@, params[r].versionName),
                 ![r].write = Promise(NotYet)]
  /\ Send(r, Status(StatusOf(Promise(NotYet).short)))
  /\ pc' = [pc EXCEPT ![r] = "settle"]
  /\ UNCHANGED <<stored, snapshot, user_stars>>
  /\ UNCHANGED fixedVars
  /\ UNCHANGED listVars

\* data.SetPackageByName, called on line 667, writes the package, or fails.
DELETEPackageVersion_Settle(r) ==
  /\ pc[r] = "settle" /\ handler[r] = "DELETEPackageVersion"
  /\ \E ok \in BOOLEAN :
       /\ local' = [local EXCEPT ![r].write =
                      Promise(IF ok THEN Retrieved ELSE Failed)]
       /\ stored' = IF ok THEN SetPackageByName(stored, params[r].packageName,
                                                local[r].pack.content)
                          ELSE stored
  /\ pc' = [pc EXCEPT ![r] = "done"]
  /\ UNCHANGED <<res, snapshot, user_stars, responses>>
  /\ UNCHANGED fixedVars
  /\ UNCHANGED listVars

DELETEPackageVersion(r) ==
  \/ \E name \in PackageNames, versionName \in DeleteVersionNames, auth \in Auths :
       DELETEPackageVersion_Start(r, name, versionName, auth)
  \/ DELETEPackageVersion_AuthFail(r)
  \/ DELETEPackageVersion_Ownership(r)
  \/ DELETEPackageVersion_OwnerError(r)
  \/ DELETEPackageVersion_GetPackage(r)
  \/ DELETEPackageVersion_PackError(r)
  \/ DELETEPackageVersion_NotFound(r)
  \/ DELETEPackageVersion_Write(r)
  \/ DELETEPackageVersion_Settle(r)

\* The version handlers that write, run concurrently.
VersionNext == \E r \in Reqs : DELETEPackageVersion(r) \/ GETPackagesVersionTarball(r)

VersionSpec == Init /\ [][VersionNext]_vars

\* ---------------------------------------------------- POSTPackages (104-187)
\* The character "/" of a string.
Slash == 0 - 3

\* The names a new package may have: every one a catalog within the bounds
\* has, and one more.
NewNames == { NameOf(i) : i \in 1..(MaxPkgs + 1) }

\* The repository a request may name: none, one with no owner, and
\* "owner/name" for the names above.
Repositories ==
  {<<>>, <<Letter>>} \cup { <<Letter, Slash>> \o name : name \in NewNames }

\* The places of the slashes of a string.
Slashes(s) == { i \in 1..Len(s) : s[i] = Slash }

\* query.repo(req): the repository when it reads "owner/repo", else "".
QueryRepo(raw) ==
  IF /\ Cardinality(Slashes(raw)) = 1
     /\ raw[1] # Slash /\ raw[Len(raw)] # Slash
    THEN raw
    ELSE <<>>

\* repository.split("/")[1]: what stands between the first slash and the next.
RepoName(repository) ==
  LET first == CHOOSE i \in Slashes(repository) :
                 \A j \in Slashes(repository) : i <= j
      ends == { j \in Slashes(repository) : j > first } \cup {Len(repository) + 1}
      next == CHOOSE j \in ends : \A k \in ends : j <= k
  IN SubSeq(repository, first + 1, next - 1)

\* data.GetPackagePointerByName(name): what the call may return.
GetPackagePointerByName(cat, name) ==
  IF Has(cat, name)
    THEN {[ok |-> TRUE, short |-> "", content |-> name], Failed}
    ELSE {NotFound}

\* git.CreatePackage(repository): what the call may return; the package data
\* read from the repository carries the repository's name.
CreatePackage(repository) ==
  LET i == CHOOSE k \in 1..(MaxPkgs + 1) : NameOf(k) = RepoName(repository)
  IN {[ok |-> TRUE, short |-> "", content |-> Package(i, 0)], Failed}

\* data.NewPackage(content): what the call may return, each with the catalog
\* after it; the name points to the new package.
NewPackage(cat, content) ==
  {[result |-> Failed, after |-> cat],
   [result |-> Retrieved,
    after |-> IF Has(cat, content.name)
                THEN [cat EXCEPT ![IndexOf(cat, content.name)] = content]
                ELSE Append(cat, content)]}

\* Lines 106-111: params, then the call of users.VerifyAuth.
POSTPackages_Start(r, repository, auth) ==
  /\ Arrives(r)
  /\ pc' = [pc EXCEPT ![r] = "auth"]
  /\ handler' = [handler EXCEPT ![r] = "POSTPackages"]
  /\ req' = [req EXCEPT ![r] = [repository |-> repository, auth |-> auth]]
  /\ params' = [params EXCEPT ![r] = [repository |-> QueryRepo(repository),
                                     auth |-> auth]]
  /\ local' = [local EXCEPT ![r] = [NoLocals EXCEPT !.user = VerifyAuth(auth)]]
  /\ res' = [res EXCEPT ![r] = NoRes]
  /\ alone' = StartAlone(r)
  /\ UNCHANGED <<stored, engine_filtered, probe, snapshot, user_stars, responses>>
  /\ UNCHANGED listVars

\* Lines 114-117.
POSTPackages_AuthFail(r) ==
  /\ pc[r] = "auth" /\ handler[r] = "POSTPackages"
  /\ ~local[r].user.ok
  /\ Send(r, Status(StatusOf(local[r].user.short)))
  /\ pc' = [pc EXCEPT ![r] = "done"]
  /\ UNCHANGED <<stored, local, snapshot, user_stars>>
  /\ UNCHANGED fixedVars
  /\ UNCHANGED listVars

\* Lines 120-124: common.BadRepoJSON.
POSTPackages_BadRepo(r) ==
  /\ pc[r] = "auth" /\ handler[r] = "POSTPackages"
  /\ local[r].user.ok
  /\ params[r].repository = <<>>
  /\ Send(r, Status(StatusOf("Bad Repo")))
  /\ pc' = [pc EXCEPT ![r] = "done"]
  /\ UNCHANGED <<stored, local, snapshot, user_stars>>
  /\ UNCHANGED fixedVars
  /\ UNCHANGED listVars

\* Lines 133-135: the call of data.GetPackagePointerByName.
POSTPackages_Exists(r) ==
  /\ pc[r] = "auth" /\ handler[r] = "POSTPackages"
  /\ local[r].user.ok
  /\ params[r].repository # <<>>
  /\ \E exists \in GetPackagePointerByName(stored, RepoName(params[r].repository)) :
       local' = [local EXCEPT ![r].exists = exists]
  /\ snapshot' = [snapshot EXCEPT ![r] = stored]
  /\ pc' = [pc EXCEPT ![r] = "exists"]
  /\ UNCHANGED <<stored, res, user_stars, responses>>
  /\ UNCHANGED fixedVars
  /\ UNCHANGED listVars

\* Lines 137-142: error.PublishPackageExists.
POSTPackages_PackageExists(r) ==
  /\ pc[r] = "exists" /\ handler[r] = "POSTPackages"
  /\ local[r].exists.ok
  /\ Send(r, Status(StatusOf("Package Exists")))
  /\ pc' = [pc EXCEPT ![r] = "done"]
  /\ UNCHANGED <<stored, local, snapshot, user_stars>>
  /\ UNCHANGED fixedVars
  /\ UNCHANGED listVars

\* Lines 145-149: the lookup failed, and not with Not Found.
POSTPackages_ExistsError(r) ==
  /\ pc[r] = "exists" /\ handler[r] = "POSTPackages"
  /\ ~local[r].exists.ok
  /\ local[r].exists.short # "Not Found"
  /\ Send(r, Status(StatusOf(local[r].exists.short)))
  /\ pc' = [pc EXCEPT ![r] = "done"]
  /\ UNCHANGED <<stored, local, snapshot, user_stars>>
  /\ UNCHANGED fixedVars
  /\ UNCHANGED listVars

\* Mutant of POSTPackages_Ownership: any failure of the lookup is taken for
\* Not Found.
POSTPackages_OwnershipAnyError(r) ==
  /\ pc[r] = "exists" /\ handler[r] = "POSTPackages"
  /\ ~local[r].exists.ok
  /\ \E gitowner \in Ownership(local[r].user.content, params[r].repository) :
       local' = [local EXCEPT ![r].gitowner = gitowner]
  /\ pc' = [pc EXCEPT ![r] = "gitowner"]
  /\ UNCHANGED <<stored, res, snapshot, user_stars, responses>>
  /\ UNCHANGED fixedVars
  /\ UNCHANGED listVars

\* Line 152: the package does not exist; the call of git.Ownership.
POSTPackages_Ownership(r) ==
  /\ pc[r] = "exists" /\ handler[r] = "POSTPackages"
  /\ ~local[r].exists.ok
  /\ local[r].exists.short = "Not Found"
  /\ \E gitowner \in Ownership(local[r].user.content, params[r].repository) :
       local' = [local EXCEPT ![r].gitowner = gitowner]
  /\ pc' = [pc EXCEPT ![r] = "gitowner"]
  /\ UNCHANGED <<stored, res, snapshot, user_stars, responses>>
  /\ UNCHANGED fixedVars
  /\ UNCHANGED listVars

\* Lines 154-157.
POSTPackages_OwnerError(r) ==
  /\ pc[r] = "gitowner" /\ handler[r] = "POSTPackages"
  /\ ~local[r].gitowner.ok
  /\ Send(r, Status(StatusOf(local[r].gitowner.short)))
  /\ pc' = [pc EXCEPT ![r] = "done"]
  /\ UNCHANGED <<stored, local, snapshot, user_stars>>
  /\ UNCHANGED fixedVars
  /\ UNCHANGED listVars

\* Mutant of POSTPackages_CreatePackage: the result of git.Ownership is not
\* looked at.
POSTPackages_CreatePackageUnowned(r) ==
  /\ pc[r] = "gitowner" /\ handler[r] = "POSTPackages"
  /\ \E pack \in CreatePackage(params[r].repository) :
       local' = [local EXCEPT ![r].pack = pack]
  /\ pc' = [pc EXCEPT ![r] = "gitpack"]
  /\ UNCHANGED <<stored, res, snapshot, user_stars, responses>>
  /\ UNCHANGED fixedVars
  /\ UNCHANGED listVars

\* Line 160: the call of git.CreatePackage.
POSTPackages_CreatePackage(r) ==
  /\ pc[r] = "gitowner" /\ handler[r] = "POSTPackages"
  /\ local[r].gitowner.ok
  /\ \E pack \in CreatePackage(params[r].repository) :
       local' = [local EXCEPT ![r].pack = pack]
  /\ pc' = [pc EXCEPT ![r] = "gitpack"]
  /\ UNCHANGED <<stored, res, snapshot, user_stars, responses>>
  /\ UNCHANGED fixedVars
  /\ UNCHANGED listVars

\* Lines 162-165.
POSTPackages_CreateError(r) ==
  /\ pc[r] = "gitpack" /\ handler[r] = "POSTPackages"
  /\ ~local[r].pack.ok
  /\ Send(r, Status(StatusOf(local[r].pack.short)))
  /\ pc' = [pc EXCEPT ![r] = "done"]
  /\ UNCHANGED <<stored, local, snapshot, user_stars>>
  /\ UNCHANGED fixedVars
  /\ UNCHANGED listVars

\* Line 168: the call of data.NewPackage.
POSTPackages_NewPackage(r) ==
  /\ pc[r] = "gitpack" /\ handler[r] = "POSTPackages"
  /\ local[r].pack.ok
  /\ \E create \in NewPackage(stored, local[r].pack.content) :
       /\ local' = [local EXCEPT ![r].create = create.result]
       /\ stored' = create.after
  /\ pc' = [pc EXCEPT ![r] = "create"]
  /\ UNCHANGED <<res, snapshot, user_stars, responses>>
  /\ UNCHANGED fixedVars
  /\ UNCHANGED listVars

\* Lines 170-173.
POSTPackages_NewError(r) ==
  /\ pc[r] = "create" /\ handler[r] = "POSTPackages"
  /\ ~local[r].create.ok
  /\ Send(r, Status(StatusOf(local[r].create.short)))
  /\ pc' = [pc EXCEPT ![r] = "done"]
  /\ UNCHANGED <<stored, local, snapshot, user_stars>>
  /\ UNCHANGED fixedVars
  /\ UNCHANGED listVars

\* Line 177: the call of data.GetPackageByName for the new package.
POSTPackages_GetNew(r) ==
  /\ pc[r] = "create" /\ handler[r] = "POSTPackages"
  /\ local[r].create.ok
  /\ \E new_pack \in GetPackageByName(stored, local[r].pack.content.name) :
       local' = [local EXCEPT ![r].new_pack = new_pack]
  /\ pc' = [pc EXCEPT ![r] = "newpack"]
  /\ UNCHANGED <<stored, res, snapshot, user_stars, responses>>
  /\ UNCHANGED fixedVars
  /\ UNCHANGED listVars

\* Lines 179-183.
POSTPackages_GetNewError(r) ==
  /\ pc[r] = "newpack" /\ handler[r] = "POSTPackages"
  /\ ~local[r].new_pack.ok
  /\ Send(r, Status(StatusOf(local[r].new_pack.short)))
  /\ pc' = [pc EXCEPT ![r] = "done"]
  /\ UNCHANGED <<stored, local, snapshot, user_stars>>
  /\ UNCHANGED fixedVars
  /\ UNCHANGED listVars

\* Line 185: the call of collection.POFPrune(new_pack.content).
POSTPackages_Prune(r) ==
  /\ pc[r] = "newpack" /\ handler[r] = "POSTPackages"
  /\ local[r].new_pack.ok
  /\ pc' = [pc EXCEPT ![r] = "prune"]
  /\ UNCHANGED <<stored, res, local, snapshot, user_stars, responses>>
  /\ UNCHANGED fixedVars
  /\ UNCHANGED listVars

\* Lines 185-186: new_pack is the pruned package; the 201.
POSTPackages_Respond(r) ==
  /\ pc[r] = "prune" /\ handler[r] = "POSTPackages"
  /\ local' = [local EXCEPT ![r].new_pack = POFPrune(@.content)]
  /\ Send(r, [NoRes EXCEPT !.status = 201,
                           !.body = POFPrune(local[r].new_pack.content)])
  /\ pc' = [pc EXCEPT ![r] = "done"]
  /\ UNCHANGED <<stored, snapshot, user_stars>>
  /\ UNCHANGED fixedVars
  /\ UNCHANGED listVars

POSTPackages(r) ==
  \/ \E repository \in Repositories, auth \in Auths :
       POSTPackages_Start(r, repository, auth)
  \/ POSTPackages_AuthFail(r)
  \/ POSTPackages_BadRepo(r)
  \/ POSTPackages_Exists(r)
  \/ POSTPackages_PackageExists(r)
  \/ POSTPackages_ExistsError(r)
  \/ POSTPackages_Ownership(r)
  \/ POSTPackages_OwnerError(r)
  \/ POSTPackages_CreatePackage(r)
  \/ POSTPackages_CreateError(r)
  \/ POSTPackages_NewPackage(r)
  \/ POSTPackages_NewError(r)
  \/ POSTPackages_GetNew(r)
  \/ POSTPackages_GetNewError(r)
  \/ POSTPackages_Prune(r)
  \/ POSTPackages_Respond(r)

\* ---------------------------------------------- DELETEPackagesName (323-355)
\* The catalog without its i-th package.
Without(cat, i) ==
  [k \in 1..(Len(cat) - 1) |-> IF k < i THEN cat[k] ELSE cat[k + 1]]

\* data.RemovePackageByName(name): what the call may return, each with the
\* catalog after it.
RemovePackageByName(cat, name) ==
  IF Has(cat, name)
    THEN {[result |-> Failed, after |-> cat],
          [result |-> Retrieved, after |-> Without(cat, IndexOf(cat, name))]}
    ELSE {[result |-> NotFound, after |-> cat]}

\* Lines 325-329: params, then the call of users.VerifyAuth.
DELETEPackagesName_Start(r, name, auth) ==
  /\ Arrives(r)
  /\ pc' = [pc EXCEPT ![r] = "auth"]
  /\ handler' = [handler EXCEPT ![r] = "DELETEPackagesName"]
  /\ req' = [req EXCEPT ![r] = [packageName |-> name, auth |-> auth]]
  /\ params' = [params EXCEPT ![r] = [auth |-> auth, packageName |-> name]]
  /\ local' = [local EXCEPT ![r] = [NoLocals EXCEPT !.user = VerifyAuth(auth)]]
  /\ res' = [res EXCEPT ![r] = NoRes]
  /\ alone' = StartAlone(r)
  /\ UNCHANGED <<stored, engine_filtered, probe, snapshot, user_stars, responses>>
  /\ UNCHANGED listVars

\* Lines 331-334.
DELETEPackagesName_AuthFail(r) ==
  /\ pc[r] = "auth" /\ handler[r] = "DELETEPackagesName"
  /\ ~local[r].user.ok
  /\ Send(r, Status(StatusOf(local[r].user.short)))
  /\ pc' = [pc EXCEPT ![r] = "done"]
  /\ UNCHANGED <<stored, local, snapshot, user_stars>>
  /\ UNCHANGED fixedVars
  /\ UNCHANGED listVars

\* Line 336: the call of git.Ownership.
DELETEPackagesName_Ownership(r) ==
  /\ pc[r] = "auth" /\ handler[r] = "DELETEPackagesName"
  /\ local[r].user.ok
  /\ \E gitowner \in Ownership(local[r].user.content, params[r].packageName) :
       local' = [local EXCEPT ![r].gitowner = gitowner]
  /\ pc' = [pc EXCEPT ![r] = "gitowner"]
  /\ UNCHANGED <<stored, res, snapshot, user_stars, responses>>
  /\ UNCHANGED fixedVars
  /\ UNCHANGED listVars

\* Mutant of DELETEPackagesName_OwnerError: the package is removed all the same.
DELETEPackagesName_OwnerErrorRemoves(r) ==
  /\ pc[r] = "gitowner" /\ handler[r] = "DELETEPackagesName"
  /\ ~local[r].gitowner.ok
  /\ \E rm \in RemovePackageByName(stored, params[r].packageName) :
       stored' = rm.after
  /\ Send(r, Status(StatusOf(local[r].gitowner.short)))
  /\ pc' = [pc EXCEPT ![r] = "done"]
  /\ UNCHANGED <<local, snapshot, user_stars>>
  /\ UNCHANGED fixedVars
  /\ UNCHANGED listVars

\* Lines 338-341.
DELETEPackagesName_OwnerError(r) ==
  /\ pc[r] = "gitowner" /\ handler[r] = "DELETEPackagesName"
  /\ ~local[r].gitowner.ok
  /\ Send(r, Status(StatusOf(local[r].gitowner.short)))
  /\ pc' = [pc EXCEPT ![r] = "done"]
  /\ UNCHANGED <<stored, local, snapshot, user_stars>>
  /\ UNCHANGED fixedVars
  /\ UNCHANGED listVars

\* Line 345: the call of data.RemovePackageByName.
DELETEPackagesName_Remove(r) ==
  /\ pc[r] = "gitowner" /\ handler[r] = "DELETEPackagesName"
  /\ local[r].gitowner.ok
  /\ \E rm \in RemovePackageByName(stored, params[r].packageName) :
       /\ local' = [local EXCEPT ![r].rm = rm.result]
       /\ stored' = rm.after
  /\ snapshot' = [snapshot EXCEPT ![r] = stored]
  /\ pc' = [pc EXCEPT ![r] = "rm"]
  /\ UNCHANGED <<res, user_stars, responses>>
  /\ UNCHANGED fixedVars
  /\ UNCHANGED listVars

\* Lines 347-350.
DELETEPackagesName_RemoveError(r) ==
  /\ pc[r] = "rm" /\ handler[r] = "DELETEPackagesName"
  /\ ~local[r].rm.ok
  /\ Send(r, Status(StatusOf(local[r].rm.short)))
  /\ pc' = [pc EXCEPT ![r] = "done"]
  /\ UNCHANGED <<stored, local, snapshot, user_stars>>
  /\ UNCHANGED fixedVars
  /\ UNCHANGED listVars

\* Lines 353-354.
DELETEPackagesName_Respond(r) ==
  /\ pc[r] = "rm" /\ handler[r] = "DELETEPackagesName"
  /\ local[r].rm.ok
  /\ Send(r, Status(204))
  /\ pc' = [pc EXCEPT ![r] = "done"]
  /\ UNCHANGED <<stored, local, snapshot, user_stars>>
  /\ UNCHANGED fixedVars
  /\ UNCHANGED listVars

DELETEPackagesName(r) ==
  \/ \E name \in PackageNames, auth \in Auths : DELETEPackagesName_Start(r, name, auth)
  \/ DELETEPackagesName_AuthFail(r)
  \/ DELETEPackagesName_Ownership(r)
  \/ DELETEPackagesName_OwnerError(r)
  \/ DELETEPackagesName_Remove(r)
  \/ DELETEPackagesName_RemoveError(r)
  \/ DELETEPackagesName_Respond(r)

\* Publishing and deleting packages, run concurrently.
PublishNext == \E r \in Reqs : POSTPackages(r) \/ DELETEPackagesName(r)

PublishSpec == Init /\ [][PublishNext]_vars

\* The handlers that require authorization, run concurrently.
AuthNext ==
  \E r \in Reqs :
    \/ POSTPackages(r)
    \/ DELETEPackagesName(r)
    \/ POSTPackagesStar(r)
    \/ DELETEPackagesStar(r)
    \/ DELETEPackageVersion(r)
    \/ POSTPackagesEventUninstall(r)

AuthSpec == Init /\ [][AuthNext]_vars

\* ================================================================ claims
Answered(r) == pc[r] = "done" /\ res[r].status = 200

\* ceil(n / d), stated without the code's arithmetic.
CeilDiv(n, d) == CHOOSE k \in 0..n : k * d >= n /\ (k = 0 \/ (k - 1) * d < n)

\* The items of s at the 0-based indices [lo, hi), clamped to [0, Len(s)).
Range(s, lo, hi) == SubSeq(s, Min(lo, Len(s)) + 1, Min(hi, Len(s)))

RECURSIVE ConcatPages(_, _, _, _)
\* The slices of pages k..total of s, one after the other.
ConcatPages(s, k, total, amount) ==
  IF k > total THEN <<>>
  ELSE Paginate(s, k, total, amount) \o ConcatPages(s, k + 1, total, amount)

\* C1: for the sorted sequence of any request, the slices the handler cuts
\* for pages 1..total_pages, concatenated, are the sorted sequence itself:
\* every item once, in order.
C1_PagesReproduceCatalog ==
  \A r \in Reqs :
    pc[r] \in {"prune", "done"} /\ all_packages[r].ok =>
      ConcatPages(sorted[r], 1, total_pages[r], paginated_amount) = sorted[r]

\* C2: the slice returned for the requested page is the sorted sequence at
\* indices [(page-1)*pageSize, page*pageSize) clamped to [0, total_count),
\* so it never holds more than pageSize items.
C2_SliceIsPageRange ==
  \A r \in Reqs :
    Answered(r) =>
      /\ res[r].body =
           POSPrune(Range(sorted[r], (req[r].page - 1) * paginated_amount,
                          req[r].page * paginated_amount))
      /\ Len(res[r].body) <= paginated_amount

\* C3: seven packages, pages of three, downloads descending: page 1 holds
\* the three most downloaded packages, total_pages is 3, page 3 holds one
\* item, page 4 is empty with last = 3.
C3_SevenPackagesScenario ==
  \A r \in Reqs :
    ( /\ Answered(r) /\ handler[r] = "GETPackages"
      /\ paginated_amount = 3 /\ Len(sorted[r]) = ScenarioPkgs
      /\ req[r].sort = "downloads" /\ req[r].order = "desc" ) =>
      /\ res[r].link.last = 3
      /\ req[r].page = 1 =>
           /\ Len(res[r].body) = 3
           /\ \A i \in 1..3 : res[r].body[i].downloads = ScenarioPkgs + 1 - i
      /\ req[r].page = 3 => Len(res[r].body) = 1
      /\ req[r].page = 4 => res[r].body = <<>>

\* C4: total_pages is max(1, ceil(total_count / pageSize)), so it is at
\* least 1 in every request, the empty catalog included.
C4_TotalPagesAtLeastOne ==
  \A r \in Reqs :
    Answered(r) =>
      /\ res[r].link.last = Max(1, CeilDiv(Len(sorted[r]), paginated_amount))
      /\ res[r].link.last >= 1

\* C5: the 'next' link names page + 1 for the requested page.
C5_NextIsPagePlusOne ==
  \A r \in Reqs : Answered(r) => res[r].link.next = req[r].page + 1

C7_PageBeyondLastIsEmpty ==
  \A r \in Reqs :
    /\ all_packages[r].ok /\ pc[r] = "done" =>
         /\ res[r].status = 200
         /\ req[r].page > total_pages[r] => res[r].body = <<>>
    /\ all_packages[r].ok /\ pc[r] # "done" =>
         /\ res[r] = NoRes
         /\ ENABLED (GETPackages(r) \/ GETPackagesSearch(r))

\* C7 witness: a request for a page beyond the last of a non-empty catalog,
\* answered.
C7_Witness ==
  \E r \in Reqs :
    /\ Answered(r)
    /\ Len(sorted[r]) >= 1
    /\ req[r].page > total_pages[r]

\* C8: no listing or search request changes the cached array: it holds the
\* stored catalog, same elements, same order, in every state.
C8_CacheNeverMutated == cached = stored

\* C9: two requests of the same handler with the same page, sort, direction
\* and query, each run with no other request in flight, against the same
\* stored catalog, get the same slice and the same link metadata.
C9_SameRequestSameResponse ==
  \A r1, r2 \in Reqs :
    ( /\ Answered(r1) /\ Answered(r2)
      /\ alone[r1] /\ alone[r2]
      /\ handler[r1] = handler[r2] /\ req[r1] = req[r2] ) =>
      res[r1] = res[r2]

\* What a request returns when it runs alone on the catalog `cat`.
SoloBody(h, rq, cat, amount) ==
  LET scored == IF h = "GETPackagesSearch"
                  THEN SearchWithinPackages(rq.q, cat) ELSE cat
      ordered == Direction(Sort(scored, rq.sort), rq.order)
      total == TotalPages(Len(ordered), amount)
  IN POSPrune(Paginate(ordered, rq.page, total, amount))

\* C10: whatever the interleaving, each request returns the slice it would
\* return running alone on the catalog it retrieved.
C10_InterleavingInvisible ==
  \A r \in Reqs :
    Answered(r) =>
      res[r].body = SoloBody(handler[r], req[r], snapshot[r], paginated_amount)

\* C11: after any sequence of tarball downloads and uninstall events that
\* starts from counters >= 0, the download counter of every stored package
\* is >= 0.
C11_DownloadsNonNegative ==
  \A i \in 1..Len(stored) : stored[i].downloads >= 0

Uninstalls(r) == handler[r] = "POSTPackagesEventUninstall"

\* The download count the data module held for the package of request r
\* when the request retrieved it.
RetrievedDownloads(r) ==
  snapshot[r][IndexOf(snapshot[r], params[r].packageName)].downloads

RetrievedPackage(r, name) == snapshot[r][IndexOf(snapshot[r], name)]

\* The lookup of request r succeeded: its `pack` is no longer the result of
\* the lookup but the pruned package.
Pruned(r) == "ok" \notin DOMAIN local[r].pack

\* C14: in the detail view, when the engine parameter is absent or is not a
\* semver, the filter is a no-op: the response is 200 with the pruned package,
\* all of its versions, as without the parameter, and no error.
C14_BadEngineIsNoOp ==
  \A r \in Reqs :
    /\ handler[r] = "GETPackagesDetails"
    /\ pc[r] = "done"
    /\ Pruned(r)
    /\ req[r].engine = <<>> \/ ~IsSemver(req[r].engine)
    => /\ res[r].status = 200
       /\ res[r].body = POFPrune(RetrievedPackage(r, req[r].packageName))
       /\ DOMAIN res[r].body.versions
            = DOMAIN RetrievedPackage(r, req[r].packageName).versions

\* A detail view with an engine parameter that is no semver was answered.
C14_Witness ==
  \E r \in Reqs :
    /\ handler[r] = "GETPackagesDetails" /\ Answered(r)
    /\ req[r].engine = <<Letter>>
    /\ Cardinality(DOMAIN res[r].body.versions) = 2

\* C15: when the search query is empty, the Ranker (SearchWithinPackages)
\* is bypassed entirely: the search handler does not invoke it, the catalog
\* goes on unscored, and the key it is sorted by is not relevance.
C15_EmptyQueryBypassesRanker ==
  \A r \in Reqs :
    handler[r] = "GETPackagesSearch" /\ req[r].q = <<>> =>
      /\ pc[r] # "search"
      /\ pc[r] \in {"sort", "direction", "prune"} \/ Answered(r) =>
           /\ params[r].sort # "relevance"
           /\ \A i \in 1..Len(Deref(r)) : "relevance" \notin DOMAIN Deref(r)[i]

\* Request r names a sort key that is none.
UnknownKey(r) ==
  /\ handler[r] \in {"GETPackages", "GETPackagesSearch"}
  /\ req[r].sort \notin ValidSorts \cup {""}

DownloadsDescending(arr) ==
  \A i, j \in 1..Len(arr) : i < j => arr[i].downloads >= arr[j].downloads

\* The array request r has collection.Sort work on.
SortTarget(r) == IF handler[r] = "GETPackages" THEN cached ELSE own[r]

EqualKeys(a, b, method) == ~Before(a, b, method) /\ ~Before(b, a, method)

\* The position in arr of the package named as p.
Position(arr, p) == CHOOSE i \in 1..Len(arr) : arr[i].name = p.name

\* C17: sorting is stable: for every input sequence, key and direction, the
\* items with equal sort keys keep their original relative order.
C17_SortIsStable ==
  probe.fn = "sort" =>
    \A i, j \in 1..Len(probe.arr) :
      i < j /\ EqualKeys(probe.arr[i], probe.arr[j], probe.method) =>
        Position(probe.value, probe.arr[i]) < Position(probe.value, probe.arr[j])

\* C18: applying the direction reversal twice gives back the original order
\* (and so does leaving the order alone twice).
C18_DirectionTwiceIsIdentity ==
  probe.fn = "direction" => probe.twice = probe.arr

\* The reversal was applied to two packages, and the first time swapped them.
C18_Witness ==
  /\ probe.fn = "direction" /\ probe.direction = "asc"
  /\ Len(probe.arr) = 2
  /\ probe.value # probe.arr
  /\ probe.value[1] = probe.arr[2]

RECURSIVE IsSubsequence(_, _)
IsSubsequence(s, t) ==
  IF s = <<>> THEN TRUE
  ELSE IF t = <<>> THEN FALSE
  ELSE IF Head(s) = Head(t) THEN IsSubsequence(Tail(s), Tail(t))
  ELSE IsSubsequence(s, Tail(t))

\* The length of the longest string that is a subsequence of both a and b.
LongestCommon(a, b) ==
  CHOOSE n \in 0..MaxStrLen :
    /\ \E s \in StringsOf(n) : IsSubsequence(s, a) /\ IsSubsequence(s, b)
    /\ \A m \in (n + 1)..MaxStrLen :
         ~\E s \in StringsOf(m) : IsSubsequence(s, a) /\ IsSubsequence(s, b)

\* C20: the LCS-overlap score is symmetric, score(a, b) = score(b, a), and
\* equals 2 * LCS_len / (len(a) + len(b)).
C20_LcsScoreIsSymmetric ==
  probe.fn = "score" /\ probe.algorithm = "lcs" =>
    /\ probe.value = Similarity("lcs", probe.b, probe.a)
    /\ Len(probe.a) + Len(probe.b) > 0 =>
         probe.value * (Len(probe.a) + Len(probe.b))
           = 2 * LongestCommon(probe.a, probe.b) * ScoreScale

\* The LCS score of two different strings of two characters that share one,
\* in different places.
C20_Witness ==
  /\ probe.fn = "score" /\ probe.algorithm = "lcs"
  /\ probe.a = <<1, 2>> /\ probe.b = <<2, 2>>
  /\ probe.value * 2 = ScoreScale

\* The versions of a package whose declared range is ^1.2.0 and nothing else.
CaretVersions(p) ==
  { k \in DOMAIN p.versions : p.versions[k].engine = {Comparator("^", 1, 2, 0)} }

\* C21: the engine filter keeps a version whose declared range is ^1.2.0
\* when the engine version requested is 1.5.0, and leaves it out when the
\* engine version requested is 2.0.0.
C21_CaretRange ==
  \A r \in Reqs :
    /\ handler[r] = "GETPackagesDetails"
    /\ pc[r] \in {"filter", "done"}
    /\ engine_filtered[r]
    => \A k \in CaretVersions(RetrievedPackage(r, req[r].packageName)) :
         /\ req[r].engine = SemverString(1, 5, 0)
              => k \in DOMAIN local[r].pack.versions
         /\ req[r].engine = SemverString(2, 0, 0)
              => k \notin DOMAIN local[r].pack.versions
         /\ pc[r] = "done" => res[r].body = local[r].pack

\* Two detail views of a package with such a version were answered, one for
\* engine 1.5.0 with the version and one for engine 2.0.0 without it.
C21_Witness ==
  \E r, o \in Reqs :
    /\ handler[r] = "GETPackagesDetails" /\ Answered(r)
    /\ handler[o] = "GETPackagesDetails" /\ Answered(o)
    /\ req[r].packageName = req[o].packageName
    /\ req[r].engine = SemverString(1, 5, 0)
    /\ req[o].engine = SemverString(2, 0, 0)
    /\ \E k \in CaretVersions(RetrievedPackage(r, req[r].packageName)) :
         /\ k \in DOMAIN res[r].body.versions
         /\ k \notin DOMAIN res[o].body.versions

\* C22: every handler sends at most one response for a request, on every
\* path: once a response, success or error, was sent, no other is sent and no
\* error handler is invoked for that request.
C22_AtMostOneResponse ==
  \A r \in Reqs : responses[r] <= 1

DeletesVersion(r) == handler[r] = "DELETEPackageVersion"

\* The version request r names is one of the package, as retrieved.
VersionExists(r) ==
  /\ local[r].pack.ok
  /\ req[r].versionName
       \in DOMAIN RetrievedPackage(r, req[r].packageName).versions

\* The version request r names is none of the package, as retrieved.
VersionAbsent(r) ==
  /\ local[r].pack.ok
  /\ req[r].versionName
       \notin DOMAIN RetrievedPackage(r, req[r].packageName).versions

\* C23: a DELETEPackageVersion request whose authentication, ownership check,
\* package lookup and write all succeed, for a version the package has, is
\* answered 204, and the stored package no longer has the version.
C23_DeleteVersionSucceeds ==
  \A r \in Reqs :
    /\ DeletesVersion(r) /\ pc[r] = "done"
    /\ local[r].user.ok /\ local[r].gitowner.ok
    /\ VersionExists(r)
    /\ local[r].write.value.ok
    => /\ res[r].status = 204
       /\ alone[r] =>
            req[r].versionName
              \notin DOMAIN stored[IndexOf(stored, req[r].packageName)].versions

\* C24: a DELETEPackageVersion request for a version the package has not is
\* answered Not Found and stops there: nothing is deleted from the package
\* object and data.SetPackageByName is not called.
C24_MissingVersionStops ==
  \A r \in Reqs :
    /\ DeletesVersion(r)
    /\ pc[r] \in {"notfound", "settle", "done"}
    /\ VersionAbsent(r)
    => /\ res[r].status = StatusOf("Not Found")
       /\ responses[r] = 1
       /\ local[r].write = NotYet
       /\ local[r].pack.content = RetrievedPackage(r, req[r].packageName)

Publishes(r) == handler[r] = "POSTPackages"

\* Request r is the one that takes the step.
Steps(r) == pc'[r] # pc[r]

\* C25: in POSTPackages, data.NewPackage is called only after, in this
\* order, the authentication succeeded, the repository was found non-empty,
\* the existence lookup failed with Not Found, the git ownership was
\* confirmed and git.CreatePackage succeeded; a request that fails at any of
\* these steps ends with an error response, with NewPackage not called and
\* no package created by it.
C25_NewPackageComesLast ==
  /\ [](\A r \in Reqs : Publishes(r) =>
          LET l == local[r]
              repo_ok == l.user.ok /\ params[r].repository # <<>>
              absent == repo_ok /\ l.exists = NotFound
              owned == absent /\ l.gitowner.ok
              made == owned /\ l.pack.ok
          IN /\ l.exists # NotYet => repo_ok
             /\ l.gitowner # NotYet => absent
             /\ l.pack # NotYet => owned
             /\ l.create # NotYet => made
             /\ pc[r] = "done" /\ ~made =>
                  /\ l.create = NotYet
                  /\ res[r].status \in {400, 401, 409, ErrorStatus})
  /\ [][\A r \in Reqs :
          Publishes(r) /\ Steps(r) /\ stored' # stored
            => /\ pc[r] = "gitpack" /\ pc'[r] = "create"
               /\ local[r].pack.ok /\ local'[r].create.ok
               /\ Has(stored', local[r].pack.content.name)]_vars

\* A package was published: every step succeeded, the package is stored and
\* the request was answered 201.
C25_Witness ==
  \E r \in Reqs :
    /\ Publishes(r) /\ pc[r] = "done" /\ res[r].status = 201
    /\ local[r].create.ok
    /\ ~Has(snapshot[r], RepoName(params[r].repository))
    /\ Has(stored, RepoName(params[r].repository))

\* C26: in POSTPackages, when a package of the repository's name exists the
\* response is the package-exists error, and when the existence lookup fails
\* other than with Not Found the response is that error; in both cases
\* neither git.Ownership nor git.CreatePackage nor data.NewPackage is called
\* and the request leaves the catalog as it is.
C26_ExistingPackageIsKept ==
  /\ [](\A r \in Reqs :
          /\ Publishes(r)
          /\ local[r].exists # NotYet /\ local[r].exists # NotFound
          => /\ pc[r] \in {"exists", "done"}
             /\ local[r].gitowner = NotYet
             /\ local[r].pack = NotYet
             /\ local[r].create = NotYet
             /\ pc[r] = "done" =>
                  /\ local[r].exists.ok
                       => res[r].status = StatusOf("Package Exists")
                  /\ ~local[r].exists.ok
                       => res[r].status = StatusOf(local[r].exists.short))
  /\ [][\A r \in Reqs :
          /\ Publishes(r) /\ Steps(r)
          /\ local[r].exists # NotYet /\ local[r].exists # NotFound
          => stored' = stored]_vars

\* A request to publish a package that is stored was answered with the
\* package-exists error, and another, whose lookup failed, with that error.
C26_Witness ==
  \E r, o \in Reqs :
    /\ Publishes(r) /\ pc[r] = "done" /\ local[r].exists.ok
    /\ res[r].status = 409
    /\ Publishes(o) /\ pc[o] = "done" /\ local[o].exists = Failed
    /\ res[o].status = ErrorStatus
    /\ Len(stored) > 0

\* The handlers that require authorization, and those of them that require
\* the ownership of the repository as well.
AuthHandlers ==
  {"POSTPackages", "DELETEPackagesName", "POSTPackagesStar",
   "DELETEPackagesStar", "DELETEPackageVersion", "POSTPackagesEventUninstall"}
OwnerHandlers == {"POSTPackages", "DELETEPackagesName", "DELETEPackageVersion"}

\* The locals that hold the result of a star, unstar, create, remove or write.
Operations == {"star", "unstar", "restar", "create", "rm", "write"}

\* C27: a handler that requires authorization changes no stored state, and
\* calls no star, unstar, create, remove or write operation, for a request
\* whose authentication has not succeeded; DELETEPackagesName,
\* DELETEPackageVersion and POSTPackages neither for a request whose git
\* ownership check has not succeeded.
C27_NoChangeBeforeAuth ==
  /\ [](\A r \in Reqs :
          LET allowed == /\ local[r].user.ok
                         /\ handler[r] \in OwnerHandlers => local[r].gitowner.ok
          IN handler[r] \in AuthHandlers /\ ~allowed =>
               /\ \A f \in Operations : local[r][f] = NotYet
               /\ handler[r] \in {"POSTPackagesStar", "DELETEPackagesStar"}
                    => local[r].pack = NotYet)
  /\ [][\A r \in Reqs :
          /\ handler[r] \in AuthHandlers /\ Steps(r)
          /\ stored' # stored \/ user_stars' # user_stars
          => /\ local[r].user.ok
             /\ handler[r] \in OwnerHandlers => local[r].gitowner.ok]_vars

\* A request without a valid token and one whose ownership check failed were
\* both refused, the catalog being what it was, and it has a package.
C27_Witness ==
  \E r, o \in Reqs :
    /\ handler[r] = "POSTPackagesStar" /\ pc[r] = "done" /\ ~local[r].user.ok
    /\ res[r].status = 401
    /\ handler[o] = "DELETEPackagesName" /\ pc[o] = "done"
    /\ local[o].user.ok /\ local[o].gitowner = NoRepoAccess
    /\ Has(stored, req[o].packageName)
    /\ Has(stored, req[r].packageName)

Stars(r) == handler[r] = "POSTPackagesStar"
Unstars(r) == handler[r] = "DELETEPackagesStar"

\* The star gazers of the package named, in a catalog that has it.
GazersOf(cat, name) == cat[IndexOf(cat, name)].star_gazers

\* The star call of request r added the user's star to the package.
StarAdded(r) ==
  /\ local[r].pack.ok
  /\ UserName \notin GazersOf(snapshot[r], params[r].packageName)

\* C28: in POSTPackagesStar, when the star was added to the package and
\* adding it to the user's profile fails, the handler calls the unstar before
\* it responds, the response is a server error and never a 200, and an unstar
\* that succeeds leaves the package with the star gazers it had before the
\* request.
C28_StarIsRolledBack ==
  /\ [](\A r \in Reqs :
          /\ Stars(r) /\ pc[r] = "done"
          /\ StarAdded(r) /\ local[r].star = Failed
          => /\ local[r].unstar # NotYet
             /\ res[r].status = ErrorStatus
             /\ res[r].status # 200)
  /\ [][\A r \in Reqs :
          /\ Stars(r) /\ pc[r] = "userstar" /\ pc'[r] = "unstar"
          /\ StarAdded(r) /\ local'[r].unstar.ok
          => GazersOf(stored', params[r].packageName)
               = GazersOf(snapshot[r], params[r].packageName)]_vars

\* A star on a package another user has starred was added, failed on the
\* user's profile, was removed again and answered with a server error.
C28_Witness ==
  \E r \in Reqs :
    /\ Stars(r) /\ pc[r] = "done" /\ StarAdded(r)
    /\ local[r].star = Failed /\ local[r].unstar.ok
    /\ res[r].status = ErrorStatus
    /\ GazersOf(stored, params[r].packageName) = {OtherName}

\* C29: in DELETEPackagesStar, when the star was removed from the package and
\* removing it from the user fails, the handler calls the restar before it
\* responds with a server error; a restar that succeeds leaves the package
\* listing the user, so that an unstar of it can succeed again; and the
\* response is 201 only when both removals succeeded.
C29_UnstarIsRolledBack ==
  /\ [](\A r \in Reqs :
          Unstars(r) /\ pc[r] = "done" =>
            /\ res[r].status = 201
                 <=> local[r].user.ok /\ local[r].pack.ok /\ local[r].unstar.ok
            /\ local[r].pack.ok /\ local[r].unstar = Failed
                 => local[r].restar # NotYet /\ res[r].status = ErrorStatus)
  /\ [][\A r \in Reqs :
          /\ Unstars(r) /\ pc[r] = "userstar" /\ pc'[r] = "restar"
          /\ local'[r].restar.ok
          => /\ UserName \in GazersOf(stored', params[r].packageName)
             /\ \E again \in UnStarPackageByName(stored', params[r].packageName,
                                                 UserName) : again.result.ok]_vars

\* An unstar was applied to the package, failed on the user's profile, was
\* undone by a restar and answered with a server error: both lists of stars
\* have the entry again.
C29_Witness ==
  \E r \in Reqs :
    /\ Unstars(r) /\ pc[r] = "done"
    /\ local[r].pack.ok /\ local[r].unstar = Failed /\ local[r].restar.ok
    /\ res[r].status = ErrorStatus
    /\ UserName \in GazersOf(stored, params[r].packageName)
    /\ params[r].packageName \in user_stars

\* No call request r made of a storage operation failed.
NoFailure(r) ==
  /\ local[r].user.ok
  /\ \A f \in {"pack", "star", "unstar", "restar"} :
       local[r][f] = NotYet \/ local[r][f].ok

\* C30: once star and unstar requests of the user for one package have all
\* completed, none of their storage operations having failed, the package
\* lists the user among its star gazers if and only if the user's profile
\* lists the package, however the requests were interleaved.
C30_StarListsAgree ==
  (/\ \A r \in Reqs : pc[r] = "done" /\ NoFailure(r)
   /\ \A r, o \in Reqs : req[r].packageName = req[o].packageName)
  => \A i \in 1..Len(stored) :
       UserName \in stored[i].star_gazers <=> stored[i].name \in user_stars
====
